---- MODULE Spec2Model ----
(***************************************************************************)
(* A model of portman: the mirror of the JACK graph and its start-up        *)
(* (portman/jack.py), the graph-reordered debouncer thread                 *)
(* (portman/jack.py), the connection tracks and the cache of Mixer objects *)
(* (portman/base.py, portman/alsa.py) and the keystroke loop               *)
(* (portman/tui.py).                                                       *)
(*                                                                         *)
(* Each part has its own specification over its own variables; the         *)
(* variables of the other parts stay at their initial value.               *)
(***************************************************************************)
EXTENDS Integers, Sequences, FiniteSets, TLC

VARIABLES
    clients,             \* PortMan.clients: client name -> (PortRef -> set of PortRef)
    real_remote_client,  \* PortMan._real_remote_client: transient name -> real name
    last,                \* history: the last port_connect event <<a, b, connect>>
    twice,               \* history: that event was also the one applied just before
    mirror_ignored,      \* history: the last callback was a port_connect that
                         \* found a port unknown and returned
    mirror_exc,          \* history: the last callback raised out of the mirror
    connecting,          \* the event <<a_ref, b_ref, connect>> of the port_connect
                         \* that stands between its two writes, <<>> when none does
    seen                 \* history: the last get of a reader thread

mirrorVars == <<clients, real_remote_client, last, twice, mirror_ignored, mirror_exc,
                connecting, seen>>

VARIABLES
    graph_reordered,     \* PortManJack.graph_reordered: "event", or "none" once shut down
    flag,                \* the flag of the threading.Event
    pc,                  \* where graph_reordered_thread stands
    deadline,            \* when the timed wait in progress expires
    cb_i,                \* the index of the settle callback the for loop is at
    pulse_pc,            \* where the graph_order callback stands
    exit_pc,             \* where PortMan.__exit__ stands
    now,                 \* the clock, in ticks
    pulses,              \* history: the pulses raised (Event.set by graph_order)
    last_pulse,          \* history: when the last pulse was raised, -1 before any
    bursts,              \* history: the runs of pulses less than a window apart
    exact_gap,           \* history: some pulse came exactly a window after the last
    settles,             \* history: the settle notifications begun
    settled_at,          \* history: when the last timed wait expired, -1 before any
    settled_last,        \* history: last_pulse at that moment
    invoked,             \* history: how often each settle callback was called
                         \* for the settle notification begun last
    raised               \* history: the settle notification in which a callback
                         \* raised last, 0 when none has

debVars == <<graph_reordered, flag, pc, deadline, cb_i, pulse_pc, exit_pc, now,
             pulses, last_pulse, bursts, exact_gap, settles, settled_at, settled_last,
             invoked, raised>>

VARIABLES
    volume,              \* the ALSA mixer: volume control -> level (getvolume()[0])
    enum_value,          \* the ALSA mixer: enum control -> current item (getenum()[0])
    requests,            \* connect/disconnect calls made on the JACK client whose
                         \* port_connect callback has not yet run
    op                   \* history: the call made on a track, and what it found

trackVars == <<volume, enum_value, requests, op>>

VARIABLES
    keys,                \* tuiwrapper: the live bindings, key -> track
    main_pc,             \* where the main thread stands in wrapper
    trigger,             \* what the main thread's update_the_status was called for
    main_keys2,          \* keys2 of the main thread's update_the_status
    main_clean,          \* history: the snapshot is as conf() of the main thread saw it
    main_same,           \* history: see Invoke
    settle_pc,           \* where the debouncer thread stands in update_the_status
    settle_keys2,        \* keys2 of the debouncer thread's update_the_status
    settle_clean,        \* history: as main_clean
    settle_same,         \* history: as main_same
    fresh,               \* history: a rebuild whose conf() saw the snapshot as it
                         \* is now has been completed
    rebuilt,             \* history: the rebuild completed last
    crash,               \* history: what raised out of wrapper
    caught,              \* history: what the debouncer thread caught last
    term,                \* the terminal: its attributes, and old of get_rawchars
    dispatch             \* history: the character read last, and the calls the
                         \* loop made on tracks for it

tuiVars == <<keys, main_pc, trigger, main_keys2, main_clean, main_same,
             settle_pc, settle_keys2, settle_clean, settle_same,
             fresh, rebuilt, crash, caught, term, dispatch>>

VARIABLES
    startup,             \* PortManJack.register from jackconn.__enter__() to the end
                         \* of the enumeration, and the JACK server it runs against
    mixers               \* alsa._mixers, the Mixer objects created and the threads
                         \* inside _get_mixer

setupVars == <<startup, mixers>>

vars == <<mirrorVars, debVars, trackVars, tuiVars, setupVars>>

\* What the actions of one part leave alone: the other parts.
notMirror == <<debVars, setupVars, trackVars, tuiVars>>
notDebounce == <<mirrorVars, trackVars, tuiVars, setupVars>>
notTracks == <<debVars, setupVars, last, twice, mirror_ignored, mirror_exc, connecting, seen,
               tuiVars>>

\* No call on a track has been made.
NoOp == [kind |-> "none"]

\* keys = {}
NoKeys == <<>>

\* No rebuild has been completed.
NoRebuild == [by |-> "none"]

\* No reader has called get.
NoRead == [torn |-> FALSE]

\* No character has been read.
NoDispatch == [char |-> "none"]

\* The terminal before get_rawchars is entered: nothing saved in old.
Terminal(attrs) == [attrs |-> attrs, old |-> "none"]

\* register has returned and no thread is inside _get_mixer.
NoStartup == [pc |-> "done", failed |-> FALSE, moved |-> FALSE]
NoMixers == [cache |-> <<>>]

\* The parts a specification does not move.
SetupIdle ==
    /\ startup = NoStartup
    /\ mixers = NoMixers

MirrorIdle ==
    /\ clients = <<>>
    /\ real_remote_client = <<>>
    /\ last = <<>>
    /\ twice = FALSE
    /\ mirror_ignored = FALSE
    /\ mirror_exc = FALSE
    /\ connecting = <<>>
    /\ seen = NoRead

MirrorHistIdle ==
    /\ last = <<>>
    /\ twice = FALSE
    /\ mirror_ignored = FALSE
    /\ mirror_exc = FALSE
    /\ connecting = <<>>
    /\ seen = NoRead

TracksIdle ==
    /\ volume = <<>>
    /\ enum_value = <<>>
    /\ requests = <<>>
    /\ op = NoOp

TuiStart ==
    /\ keys = NoKeys
    /\ main_pc = "conf"
    /\ trigger = "startup"
    /\ main_keys2 = NoKeys
    /\ main_clean = FALSE
    /\ main_same = FALSE
    /\ settle_pc = "idle"
    /\ settle_keys2 = NoKeys
    /\ settle_clean = FALSE
    /\ settle_same = FALSE
    /\ fresh = FALSE
    /\ rebuilt = NoRebuild
    /\ crash = "none"
    /\ caught = "none"
    /\ dispatch = NoDispatch

TuiIdle ==
    /\ TuiStart
    /\ term = Terminal("cooked")

DebounceIdle ==
    /\ graph_reordered = "event"
    /\ flag = FALSE
    /\ pc = "while"
    /\ deadline = 0
    /\ cb_i = 0
    /\ pulse_pc = "idle"
    /\ exit_pc = "running"
    /\ now = 0
    /\ pulses = 0
    /\ last_pulse = -1
    /\ bursts = 0
    /\ exact_gap = FALSE
    /\ settles = 0
    /\ settled_at = -1
    /\ settled_last = -1
    /\ invoked = <<>>
    /\ raised = 0

(***************************************************************************)
(* The universe of the mirror                                              *)
(***************************************************************************)

\* Names of JACK clients: what client_registration reports, what stands left of
\* the colon in a port name, and what the server's identity lookup returns.
ClientNames == {"c1", "c2"}

\* Short names of ports.
ShortNames == {"p1", "p2"}

\* jack.Port.name "client:shortname", kept as the pair split(":", 1) returns.
JackPortNames == {<<"c1", "p1">>, <<"c1", "p2">>, <<"c2", "p1">>}

NoName == "-"
NoEvent == <<>>

\* PortRef(client_name, subclient_name, port_name)
PortRefs == ClientNames \X ClientNames \X ShortNames

\* A dict with no key.
EmptyDict == <<>>

(***************************************************************************)
(* PortMan._jack_port_name_to_ref                                          *)
(***************************************************************************)

\* The real client of a transient name: the cached one, else the answer of
\* get_client_name_by_uuid(get_uuid_for_client_name(remote_client)).
RealClient(cache, remote_client, answer) ==
    IF cache[remote_client] # NoName THEN cache[remote_client] ELSE answer

\* A lookup that does not store its answer.
CacheAfterForgets(cache, remote_client, answer) == cache

\* The cache after the lookup: a miss stores the answer.
CacheAfter(cache, remote_client, answer) ==
    [cache EXCEPT ![remote_client] = RealClient(cache, remote_client, answer)]

jack_port_name_to_ref(cache, port_name, answer) ==
    <<RealClient(cache, port_name[1], answer), port_name[1], port_name[2]>>

\* The answers the server can give when remote_client is looked up: the lookup
\* is made on a cache miss only.
Answers(cache, remote_client) ==
    IF cache[remote_client] # NoName THEN {cache[remote_client]} ELSE ClientNames

(***************************************************************************)
(* dict helpers                                                            *)
(***************************************************************************)

\* d.setdefault(k, v), as the dict it leaves behind
SetDefault(d, k, v) == IF k \in DOMAIN d THEN d ELSE d @@ (k :> v)

\* d.pop(k, None), as the dict it leaves behind
Pop(d, k) == [x \in (DOMAIN d) \ {k} |-> d[x]]

\* d[k] = v
Store(d, k, v) == [x \in (DOMAIN d) \cup {k} |-> IF x = k THEN v ELSE d[x]]

(***************************************************************************)
(* The callbacks of PortManJack.register, as functions of the snapshot     *)
(***************************************************************************)

\* A handler that forgets every client when one is unregistered.
ClientRegistrationClears(cl, client_name, register) ==
    IF register
    THEN SetDefault(cl, client_name, EmptyDict)
    ELSE EmptyDict

\* A handler that empties the client's record instead of removing it.
ClientRegistrationEmpties(cl, client_name, register) ==
    IF register
    THEN SetDefault(cl, client_name, EmptyDict)
    ELSE IF client_name \in DOMAIN cl THEN Store(cl, client_name, EmptyDict) ELSE cl

client_registration(cl, client_name, register) ==
    IF register
    THEN SetDefault(cl, client_name, EmptyDict)
    ELSE Pop(cl, client_name)

\* A handler that stores a new record where the code uses setdefault.
PortRegistrationResets(cl, port_ref, register) ==
    LET cl1 == SetDefault(cl, port_ref[1], EmptyDict)
        ports == cl1[port_ref[1]]
    IN  IF register
        THEN Store(cl1, port_ref[1], Store(ports, port_ref, {}))
        ELSE Store(cl1, port_ref[1], Pop(ports, port_ref))

\* port_ref is the resolved reference of the port
port_registration(cl, port_ref, register) ==
    LET cl1 == SetDefault(cl, port_ref[1], EmptyDict)
        ports == cl1[port_ref[1]]
    IN  IF register
        THEN Store(cl1, port_ref[1], SetDefault(ports, port_ref, {}))
        ELSE Store(cl1, port_ref[1], Pop(ports, port_ref))

\* The lookups a_ports[a_ref] and b_ports[b_ref] of port_connect raise KeyError.
ConnectKeyError(cl, a_ref, b_ref) ==
    \/ a_ref \notin DOMAIN cl[a_ref[1]]
    \/ b_ref \notin DOMAIN cl[b_ref[1]]

\* A try block that ends after the first lookup: b's KeyError escapes.
ConnectCatchesFirstLookupOnly(cl, a_ref, b_ref) ==
    a_ref \notin DOMAIN cl[a_ref[1]]

\* The except clause of port_connect catches the KeyError of the two lookups.
ConnectCatches(cl, a_ref, b_ref) == TRUE

\* An event handler that flips the connection instead of recording connect.
ConnectMutateToggle(cl, a_ref, b_ref, connect) ==
    LET b_conn == cl[b_ref[1]][b_ref]
        cl1 == Store(cl, b_ref[1], Store(cl[b_ref[1]], b_ref,
                   IF a_ref \in b_conn THEN b_conn \ {a_ref} ELSE b_conn \cup {a_ref}))
        a_conn == cl1[a_ref[1]][a_ref]
    IN  Store(cl1, a_ref[1], Store(cl1[a_ref[1]], a_ref,
                   IF b_ref \in a_conn THEN a_conn \ {b_ref} ELSE a_conn \cup {b_ref}))

\* An event handler that records the event on b's port only.
ConnectMutateSecondOnly(cl, a_ref, b_ref, connect) ==
    LET b_conn == cl[b_ref[1]][b_ref]
    IN  Store(cl, b_ref[1], Store(cl[b_ref[1]], b_ref,
              IF connect THEN b_conn \cup {a_ref} ELSE b_conn \ {a_ref}))

\* The body of port_connect after the two lookups succeeded.
ConnectMutate(cl, a_ref, b_ref, connect) ==
    LET b_conn == cl[b_ref[1]][b_ref]
        cl1 == Store(cl, b_ref[1], Store(cl[b_ref[1]], b_ref,
                   IF connect THEN b_conn \cup {a_ref} ELSE b_conn \ {a_ref}))
        a_conn == cl1[a_ref[1]][a_ref]
    IN  Store(cl1, a_ref[1], Store(cl1[a_ref[1]], a_ref,
                   IF connect THEN a_conn \cup {b_ref} ELSE a_conn \ {b_ref}))

\* port_connect: the snapshot it leaves and whether an exception leaves it.
port_connect(cl, a_ref, b_ref, connect) ==
    LET cl1 == SetDefault(cl, a_ref[1], EmptyDict)
        cl2 == SetDefault(cl1, b_ref[1], EmptyDict)
    IN  IF ConnectKeyError(cl2, a_ref, b_ref)
        THEN [clients |-> cl2, ignored |-> TRUE,
              exc |-> ~ConnectCatches(cl2, a_ref, b_ref)]
        ELSE [clients |-> ConnectMutate(cl2, a_ref, b_ref, connect),
              ignored |-> FALSE, exc |-> FALSE]

\* The whole callback from the names JACK passes: both names are resolved first,
\* a's before b's, each lookup answered by the server with ans_a, ans_b.
PortConnectResult(cl, cache, a, b, connect, ans_a, ans_b) ==
    LET a_ref == jack_port_name_to_ref(cache, a, ans_a)
        cache1 == CacheAfter(cache, a[1], ans_a)
        b_ref == jack_port_name_to_ref(cache1, b, ans_b)
        cache2 == CacheAfter(cache1, b[1], ans_b)
        r == port_connect(cl, a_ref, b_ref, connect)
    IN  [clients |-> r.clients, cache |-> cache2, exc |-> r.exc,
         ignored |-> r.ignored, a_ref |-> a_ref, b_ref |-> b_ref]

(***************************************************************************)
(* Reading the snapshot                                                    *)
(***************************************************************************)

\* The port references that have a record in the snapshot.
KnownPorts(cl) == UNION {DOMAIN cl[c] : c \in DOMAIN cl}

HasPort(cl, ref) == ref[1] \in DOMAIN cl /\ ref \in DOMAIN cl[ref[1]]

Connections(cl, ref) == cl[ref[1]][ref]

(***************************************************************************)
(* The baseline: the enumeration at the end of PortManJack.register        *)
(***************************************************************************)

\* The snapshot the enumeration builds from the server's ports and, for each,
\* its connections: real[n] is the server's answer for the transient name n.
RefOf(real, pn) == <<real[pn[1]], pn[1], pn[2]>>

Enumerate(real, ports, conns) ==
    LET refs == {RefOf(real, pn) : pn \in ports}
        owners == {r[1] : r \in refs}
    IN  [c \in owners |->
            [r \in {x \in refs : x[1] = c} |->
                {RefOf(real, q) : q \in {q \in ports :
                    \E pn \in ports : RefOf(real, pn) = r /\ <<pn, q>> \in conns}}]]

\* The server's connections are between existing ports, in both directions.
ServerGraphs(ports) ==
    {g \in SUBSET (ports \X ports) :
        \A e \in g : e[1] # e[2] /\ <<e[2], e[1]>> \in g}

MirrorInit ==
    /\ DebounceIdle
    /\ SetupIdle
    /\ TracksIdle
    /\ TuiIdle
    /\ \E real \in [ClientNames -> ClientNames] :
       \E ports \in SUBSET JackPortNames :
       \E conns \in ServerGraphs(ports) :
        /\ clients = Enumerate(real, ports, conns)
        /\ real_remote_client =
              [n \in ClientNames |->
                  IF \E pn \in ports : pn[1] = n THEN real[n] ELSE NoName]
        /\ last = NoEvent
        /\ twice = FALSE
        /\ mirror_ignored = FALSE
        /\ mirror_exc = FALSE
        /\ connecting = <<>>
        /\ seen = NoRead

(***************************************************************************)
(* The callbacks as actions                                                *)
(***************************************************************************)

\* The callback, as it moves the mirror.
ClientRegistrationStep ==
    \E client_name \in ClientNames, register \in BOOLEAN :
        /\ clients' = client_registration(clients, client_name, register)
        /\ last' = NoEvent
        /\ twice' = FALSE
        /\ mirror_ignored' = FALSE
        /\ mirror_exc' = FALSE
        /\ UNCHANGED <<real_remote_client, connecting, seen>>

ClientRegistration ==
    /\ ClientRegistrationStep
    /\ UNCHANGED notMirror

PortRegistration ==
    \E port \in JackPortNames, register \in BOOLEAN :
    \E answer \in Answers(real_remote_client, port[1]) :
        /\ clients' = port_registration(clients,
                          jack_port_name_to_ref(real_remote_client, port, answer),
                          register)
        /\ real_remote_client' = CacheAfter(real_remote_client, port[1], answer)
        /\ last' = NoEvent
        /\ twice' = FALSE
        /\ mirror_ignored' = FALSE
        /\ mirror_exc' = FALSE
        /\ UNCHANGED <<connecting, seen, notMirror>>

\* observed: the specification keeps the history of port_connect events
PortConnectStep(observed) ==
    \E a \in JackPortNames, b \in JackPortNames, connect \in BOOLEAN :
    \E ans_a \in Answers(real_remote_client, a[1]) :
    \E ans_b \in Answers(CacheAfter(real_remote_client, a[1], ans_a), b[1]) :
        LET r == PortConnectResult(clients, real_remote_client, a, b, connect,
                                   ans_a, ans_b)
        IN  /\ clients' = r.clients
            /\ real_remote_client' = r.cache
            /\ last' = IF observed THEN <<a, b, connect>> ELSE NoEvent
            /\ twice' = (observed /\ last = <<a, b, connect>>)
            /\ mirror_ignored' = r.ignored
            /\ mirror_exc' = r.exc
            /\ UNCHANGED <<connecting, seen, notMirror>>

PortConnect == PortConnectStep(FALSE)

PortConnectObserved == PortConnectStep(TRUE)

MirrorNext == ClientRegistration \/ PortRegistration \/ PortConnect

MirrorSpec == MirrorInit /\ [][MirrorNext]_vars

\* The same mirror, with the history of port_connect events kept.
MirrorHistNext == ClientRegistration \/ PortRegistration \/ PortConnectObserved

MirrorHistSpec == MirrorInit /\ [][MirrorHistNext]_vars

(***************************************************************************)
(* Claims about the mirror                                                 *)
(***************************************************************************)

\* C1: after any sequence of mirror events applied to a symmetric baseline, for
\* all ports a and b with a record, b is in a's connection set if and only if a
\* is in b's connection set.
C1_Symmetry ==
    \A a \in KnownPorts(clients), b \in KnownPorts(clients) :
        (b \in Connections(clients, a)) <=> (a \in Connections(clients, b))

\* The reference the mirror now gives the port name pn (its name is cached).
CachedRef(pn) == <<real_remote_client[pn[1]], pn[1], pn[2]>>

\* C2: for every snapshot and every ports-connected event (connect or
\* disconnect, known or unknown endpoints), applying the event a second time
\* leaves the snapshot as the first application left it.
C2_IdempotentApply ==
    \A a \in JackPortNames, b \in JackPortNames, connect \in BOOLEAN :
    \A ans_a \in Answers(real_remote_client, a[1]) :
    \A ans_b \in Answers(CacheAfter(real_remote_client, a[1], ans_a), b[1]) :
        LET r1 == PortConnectResult(clients, real_remote_client, a, b, connect,
                                    ans_a, ans_b)
        IN  \A ans_a2 \in Answers(r1.cache, a[1]), ans_b2 \in Answers(r1.cache, b[1]) :
                PortConnectResult(r1.clients, r1.cache, a, b, connect,
                                  ans_a2, ans_b2).clients = r1.clients

\* C2's case: a connect event between two known, distinct ports was applied
\* twice in a row and the connection is recorded on both ends.
C2_Witness ==
    /\ twice
    /\ last # NoEvent
    /\ last[3]
    /\ last[1] # last[2]
    /\ HasPort(clients, CachedRef(last[1]))
    /\ HasPort(clients, CachedRef(last[2]))
    /\ CachedRef(last[2]) \in Connections(clients, CachedRef(last[1]))
    /\ CachedRef(last[1]) \in Connections(clients, CachedRef(last[2]))

\* C9: a ports-connected event (connect or disconnect) in which either endpoint
\* has no record in the snapshot does not raise out of the mirror and leaves the
\* connection set of every port that has a record as it was.
C9_UnknownPortIgnored ==
    /\ ~mirror_exc
    /\ \A a \in JackPortNames, b \in JackPortNames, connect \in BOOLEAN :
       \A ans_a \in Answers(real_remote_client, a[1]) :
       \A ans_b \in Answers(CacheAfter(real_remote_client, a[1], ans_a), b[1]) :
          LET r == PortConnectResult(clients, real_remote_client, a, b, connect,
                                     ans_a, ans_b)
          IN  (~HasPort(clients, r.a_ref) \/ ~HasPort(clients, r.b_ref)) =>
                /\ ~r.exc
                /\ \A p \in KnownPorts(clients) :
                      /\ HasPort(r.clients, p)
                      /\ Connections(r.clients, p) = Connections(clients, p)

\* C9's case: the last callback was a ports-connected event that found a port
\* without a record and returned, while another port has a connection recorded.
C9_Witness ==
    /\ mirror_ignored
    /\ ~mirror_exc
    /\ \E p \in KnownPorts(clients) : Connections(clients, p) # {}

\* C35: a ports-connected event (connect or disconnect) in which either
\* endpoint has no record leaves the whole snapshot as it was: the client
\* entries are the same and every ClientRecord is unchanged.
C35_IgnoredEventChangesNothing ==
    \A a \in JackPortNames, b \in JackPortNames, connect \in BOOLEAN :
    \A ans_a \in Answers(real_remote_client, a[1]) :
    \A ans_b \in Answers(CacheAfter(real_remote_client, a[1], ans_a), b[1]) :
        LET r == PortConnectResult(clients, real_remote_client, a, b, connect,
                                   ans_a, ans_b)
        IN  (~HasPort(clients, r.a_ref) \/ ~HasPort(clients, r.b_ref)) =>
                r.clients = clients

\* C36: every PortReference in the connection set of a port that has a record
\* is the reference of a port that has a record.
C36_NoDanglingConnections ==
    \A p \in KnownPorts(clients) :
        \A q \in Connections(clients, p) : HasPort(clients, q)

(***************************************************************************)
(* The debouncer: graph_reordered_thread, graph_order and PortMan.__exit__ *)
(***************************************************************************)

\* The settle window wait(0.05), in ticks of 25 ms.
SettleWindow == 2

\* The clock stops here.
MaxTime == 7

\* The pulses the audio server raises.
MaxPulses == 3

\* The callbacks registered in PortMan._graph_order_callback.
NumCallbacks == 2

\* A timed wait that returns as soon as it is called.
WaitDeadlineNoWindow(t) == t

\* When the timed wait begun at t expires.
WaitDeadline(t) == t + SettleWindow

\* self.graph_reordered.<method>() once __exit__ has stored None: AttributeError
Deref == graph_reordered # "none"

debHist == <<pulses, last_pulse, bursts, exact_gap, settles, settled_at, settled_last,
             invoked, raised>>

\* line 100: while self.graph_reordered is not None
T_While ==
    /\ pc = "while"
    /\ pc' = IF graph_reordered = "none" THEN "returned" ELSE "wait"
    /\ UNCHANGED <<notDebounce, graph_reordered, flag, deadline, cb_i, pulse_pc, exit_pc, now, debHist>>

\* line 101: self.graph_reordered.wait(), up to the point where it blocks
T_Wait ==
    /\ pc = "wait"
    /\ pc' = IF ~Deref THEN "crashed" ELSE IF flag THEN "check1" ELSE "blocked"
    /\ UNCHANGED <<notDebounce, graph_reordered, flag, deadline, cb_i, pulse_pc, exit_pc, now, debHist>>

\* line 101: the wait returns once the flag is set
T_Wake ==
    /\ pc = "blocked"
    /\ flag
    /\ pc' = "check1"
    /\ UNCHANGED <<notDebounce, graph_reordered, flag, deadline, cb_i, pulse_pc, exit_pc, now, debHist>>

\* line 103: if self.graph_reordered is None: return
T_Check1 ==
    /\ pc = "check1"
    /\ pc' = IF graph_reordered = "none" THEN "returned" ELSE "clear1"
    /\ UNCHANGED <<notDebounce, graph_reordered, flag, deadline, cb_i, pulse_pc, exit_pc, now, debHist>>

\* line 105: self.graph_reordered.clear()
T_Clear1 ==
    /\ pc = "clear1"
    /\ pc' = IF Deref THEN "timed" ELSE "crashed"
    /\ flag' = IF Deref THEN FALSE ELSE flag
    /\ UNCHANGED <<notDebounce, graph_reordered, deadline, cb_i, pulse_pc, exit_pc, now, debHist>>

\* line 106: self.graph_reordered.wait(0.05) is called: it returns True at once
\* when the flag is set, and else waits for the flag until the deadline
T_Timed ==
    /\ pc = "timed"
    /\ pc' = IF ~Deref THEN "crashed" ELSE IF flag THEN "check2" ELSE "waiting"
    /\ deadline' = IF Deref /\ ~flag THEN WaitDeadline(now) ELSE deadline
    /\ UNCHANGED <<notDebounce, graph_reordered, flag, cb_i, pulse_pc, exit_pc, now, debHist>>

\* line 106: the flag was set during the wait, which returns True
T_Signalled ==
    /\ pc = "waiting"
    /\ flag
    /\ pc' = "check2"
    /\ UNCHANGED <<notDebounce, graph_reordered, flag, deadline, cb_i, pulse_pc, exit_pc, now, debHist>>

\* line 106: the deadline passed with the flag clear, the wait returns False
T_Timeout ==
    /\ pc = "waiting"
    /\ ~flag
    /\ now >= deadline
    /\ pc' = "notify"
    /\ settled_at' = now
    /\ settled_last' = last_pulse
    /\ UNCHANGED <<notDebounce, graph_reordered, flag, deadline, cb_i, pulse_pc, exit_pc, now,
                   pulses, last_pulse, bursts, exact_gap, settles, invoked, raised>>

\* line 108: if self.graph_reordered is None: return
T_Check2 ==
    /\ pc = "check2"
    /\ pc' = IF graph_reordered = "none" THEN "returned" ELSE "clear2"
    /\ UNCHANGED <<notDebounce, graph_reordered, flag, deadline, cb_i, pulse_pc, exit_pc, now, debHist>>

\* line 110: self.graph_reordered.clear()
T_Clear2 ==
    /\ pc = "clear2"
    /\ pc' = IF Deref THEN "timed" ELSE "crashed"
    /\ flag' = IF Deref THEN FALSE ELSE flag
    /\ UNCHANGED <<notDebounce, graph_reordered, deadline, cb_i, pulse_pc, exit_pc, now, debHist>>

\* line 112: the for loop over the callbacks begins: a settle notification
T_Notify ==
    /\ pc = "notify"
    /\ settles' = settles + 1
    /\ cb_i' = 1
    /\ invoked' = [i \in 1..NumCallbacks |-> 0]
    /\ pc' = IF NumCallbacks = 0 THEN "while" ELSE "callbacks"
    /\ UNCHANGED <<notDebounce, graph_reordered, flag, deadline, pulse_pc, exit_pc, now,
                   pulses, last_pulse, bursts, exact_gap, settled_at, settled_last,
                   raised>>

\* A for loop without the try: what callback i raises ends the thread.
AfterCallbackUncaught(i, raises) ==
    IF raises THEN "died"
    ELSE IF i = NumCallbacks THEN "while" ELSE "callbacks"

\* A thread that serves one settle notification and returns.
AfterCallbackOnce(i, raises) ==
    IF i = NumCallbacks THEN "returned" ELSE "callbacks"

\* lines 113-116: where the thread goes on after callback i: except Exception
\* catches what f() raises and prints it, and the for loop goes on.
AfterCallback(i, raises) ==
    IF i = NumCallbacks THEN "while" ELSE "callbacks"

\* lines 113-116: one callback runs; what it raises is caught and printed
T_Callback ==
    /\ pc = "callbacks"
    /\ \E raises \in BOOLEAN :
        /\ invoked' = [invoked EXCEPT ![cb_i] = @ + 1]
        /\ raised' = IF raises THEN settles ELSE raised
        /\ cb_i' = cb_i + 1
        /\ pc' = AfterCallback(cb_i, raises)
    /\ UNCHANGED <<notDebounce, graph_reordered, flag, deadline, pulse_pc, exit_pc, now,
                   pulses, last_pulse, bursts, exact_gap, settles, settled_at,
                   settled_last>>

\* line 122 of graph_order: if self.graph_reordered is not None
PulseCheck ==
    /\ pulse_pc = "idle"
    /\ pulses < MaxPulses
    /\ pulse_pc' = IF graph_reordered = "none" THEN "idle" ELSE "set"
    /\ pulses' = IF graph_reordered = "none" THEN pulses + 1 ELSE pulses
    /\ UNCHANGED <<notDebounce, graph_reordered, flag, pc, deadline, cb_i, exit_pc, now,
                   last_pulse, bursts, exact_gap, settles, settled_at, settled_last,
                   invoked, raised>>

\* line 123 of graph_order: self.graph_reordered.set()
PulseSet ==
    /\ pulse_pc = "set"
    /\ pulse_pc' = IF Deref THEN "idle" ELSE "crashed"
    /\ flag' = IF Deref THEN TRUE ELSE flag
    /\ pulses' = pulses + 1
    /\ last_pulse' = IF Deref THEN now ELSE last_pulse
    /\ bursts' = IF Deref /\ (last_pulse < 0 \/ now - last_pulse >= SettleWindow)
                 THEN bursts + 1 ELSE bursts
    /\ exact_gap' = (exact_gap \/ (Deref /\ last_pulse >= 0
                                     /\ now - last_pulse = SettleWindow))
    /\ UNCHANGED <<notDebounce, graph_reordered, pc, deadline, cb_i, exit_pc, now,
                   settles, settled_at, settled_last, invoked, raised>>

\* base.py lines 205-207: if self.graph_reordered is not None: g = ...; ... = None
ExitNull ==
    /\ exit_pc = "running"
    /\ graph_reordered' = "none"
    /\ exit_pc' = "set"
    /\ UNCHANGED <<notDebounce, flag, pc, deadline, cb_i, pulse_pc, now, debHist>>

\* base.py line 208: g.set()
ExitSet ==
    /\ exit_pc = "set"
    /\ flag' = TRUE
    /\ exit_pc' = "conn"
    /\ UNCHANGED <<notDebounce, graph_reordered, pc, deadline, cb_i, pulse_pc, now, debHist>>

\* base.py line 209: self._conn.__exit__(...)
ExitConn ==
    /\ exit_pc = "conn"
    /\ exit_pc' = "released"
    /\ UNCHANGED <<notDebounce, graph_reordered, flag, pc, deadline, cb_i, pulse_pc, now, debHist>>

\* Time passes, but not past the deadline of a timed wait nobody has signalled:
\* that wait returns False at its deadline.
Tick ==
    /\ now < MaxTime
    /\ ~(pc = "waiting" /\ ~flag /\ now >= deadline)
    /\ now' = now + 1
    /\ UNCHANGED <<notDebounce, graph_reordered, flag, pc, deadline, cb_i, pulse_pc, exit_pc, debHist>>

DebounceInit == DebounceIdle /\ MirrorIdle /\ TracksIdle /\ TuiIdle /\ SetupIdle

DebounceNext ==
    \/ T_While \/ T_Wait \/ T_Wake \/ T_Check1 \/ T_Clear1 \/ T_Timed
    \/ T_Signalled \/ T_Timeout \/ T_Check2 \/ T_Clear2 \/ T_Notify \/ T_Callback
    \/ PulseCheck \/ PulseSet \/ ExitNull \/ ExitSet \/ ExitConn \/ Tick

DebounceSpec == DebounceInit /\ [][DebounceNext]_vars

(***************************************************************************)
(* Claims about the debouncer                                              *)
(***************************************************************************)

\* The debouncer runs: __exit__ has not begun.
Running == exit_pc = "running"

\* Every pulse raised has been served: the waiter blocks in the untimed wait with
\* the flag clear and no graph_order callback is under way.
Quiescent == Running /\ pc = "blocked" /\ ~flag /\ pulse_pc = "idle"

\* C3 as claimed: once the pulses delivered have been served, there have been as
\* many settle notifications as bursts (maximal runs of pulses each less than
\* the settle window after the previous one); runs in which two pulses were
\* exactly a window apart are left out.
C3_OneSettlePerBurst == (Quiescent /\ ~exact_gap) => settles = bursts

\* C3 as amended: while the debouncer runs there are never more settle
\* notifications than bursts; once the pulses have been served there has been at
\* least one notification, and exactly one when all pulses were within the window
\* of each other; and the timed wait that precedes a notification expires a full
\* settle window or more after the last pulse raised before it expired.
C3_Coalescing ==
    Running =>
        /\ settles <= bursts
        /\ (Quiescent /\ bursts >= 1) => settles >= 1
        /\ (Quiescent /\ bursts = 1) => settles = 1
        /\ settled_at >= 0 =>
              /\ settled_last >= 0
              /\ settled_at - settled_last >= SettleWindow

\* C3's case: three pulses in two bursts (two of them within the window of each
\* other) were served by two notifications.
C3_Witness ==
    Quiescent /\ pulses = 3 /\ bursts = 2 /\ settles = 2

\* The for loop over the callbacks of the settle notification begun last is
\* over.
NotificationOver == settles > 0 /\ pc \notin {"notify", "callbacks"}

\* C20: when a settle notification fires with several callbacks registered and
\* one of them raises, every other callback is still called exactly once for
\* that notification, and the thread goes on to the head of its loop, where it
\* serves the pulses that come later.
C20_CallbacksIsolated ==
    /\ pc = "callbacks" =>
          \A i \in 1..NumCallbacks : invoked[i] = IF i < cb_i THEN 1 ELSE 0
    /\ NotificationOver => \A i \in 1..NumCallbacks : invoked[i] = 1
    /\ pc # "died"

\* C20's case: a callback raised in the first settle notification, and the
\* thread has since called every callback once for the second.
C20_Witness ==
    /\ raised = 1
    /\ settles = 2
    /\ NotificationOver
    /\ \A i \in 1..NumCallbacks : invoked[i] = 1

\* C18: at shutdown the debouncer thread has ended before the connection to
\* the audio server is released: no settle callback is running at that moment
\* or begins after it.
C18_NoCallbackAfterRelease ==
    exit_pc = "released" => pc \notin {"notify", "callbacks"}

\* C37: neither graph_reordered_thread nor graph_order calls a method on
\* self.graph_reordered after __exit__ has stored None in it.
C37_NoNullDereference ==
    /\ pc # "crashed"
    /\ pulse_pc # "crashed"

(***************************************************************************)
(* The debouncer left running: pulses stop, __exit__ is never called       *)
(***************************************************************************)

\* A time one tick further in the past; what is MaxTime ago or more stays so,
\* and -1 (never) stays -1.
Older(t) == IF t > 0 THEN t - 1 ELSE t

\* Time passes once the clock reads MaxTime: the clock keeps its reading and
\* every time remembered becomes one tick older.
ClockSlides ==
    /\ now = MaxTime
    /\ ~(pc = "waiting" /\ ~flag /\ now >= deadline)
    /\ deadline' = Older(deadline)
    /\ last_pulse' = Older(last_pulse)
    /\ settled_at' = Older(settled_at)
    /\ settled_last' = Older(settled_last)
    /\ UNCHANGED <<notDebounce, graph_reordered, flag, pc, cb_i, pulse_pc, exit_pc,
                   now, pulses, bursts, exact_gap, settles, invoked, raised>>

\* The steps of graph_reordered_thread.
Waiter ==
    \/ T_While \/ T_Wait \/ T_Wake \/ T_Check1 \/ T_Clear1 \/ T_Timed
    \/ T_Signalled \/ T_Timeout \/ T_Check2 \/ T_Clear2 \/ T_Notify \/ T_Callback

\* Time passes.
Clock == Tick \/ ClockSlides

DebounceLiveNext ==
    \/ T_While \/ T_Wait \/ T_Wake \/ T_Check1 \/ T_Clear1 \/ T_Timed
    \/ T_Signalled \/ T_Timeout \/ T_Check2 \/ T_Clear2 \/ T_Notify \/ T_Callback
    \/ PulseCheck \/ PulseSet \/ Tick \/ ClockSlides

\* The thread is scheduled while it can take a step, a graph_order callback
\* that has begun runs to its end, settle callbacks return, and time passes.
\* The audio server is not obliged to raise pulses, and raises MaxPulses at most.
DebounceLiveSpec ==
    /\ DebounceInit
    /\ [][DebounceLiveNext]_vars
    /\ WF_vars(Waiter)
    /\ WF_vars(PulseSet)
    /\ WF_vars(Clock)

\* C26: no pulse is lost.  A pulse leaves the flag set; from any state in which
\* the flag is set (the pulse may have come while the thread was blocked, in
\* the settle window, between a wait's return and the clear, or while the
\* callbacks of an earlier notification were running) a settle notification
\* begins later: the for loop over the callbacks is entered once more.
C26_NoPulseLost ==
    \A n \in 0..(MaxPulses + 1) : (flag /\ settles = n) ~> (settles > n)

\* C26's case: two pulses more than a settle window apart, each followed by a
\* notification of its own; the callbacks of the second are running.
C26_Witness ==
    /\ pulses = 2
    /\ bursts = 2
    /\ settles = 2
    /\ settled_last = last_pulse
    /\ pc = "callbacks"

\* C27: once __exit__ has stored the sentinel None in graph_reordered, the
\* thread ends in every interleaving and begins no settle notification: no
\* step taken with the sentinel stored begins the for loop over the callbacks.
C27_NoNotificationAfterSentinel ==
    [][graph_reordered = "none" => settles' = settles]_vars

(***************************************************************************)
(* Tracks (portman/base.py, portman/alsa.py)                               *)
(*                                                                         *)
(* A track is a record of its class and constructor arguments.  get and    *)
(* set are functions of the world w they run in: w.volume and w.enum are   *)
(* the mixer, w.clients is the snapshot Leaf tracks read, w.requests the   *)
(* calls made on the JACK client.  failing is the set of mixer controls    *)
(* whose device I/O raises alsaaudio.ALSAAudioError during the call.       *)
(***************************************************************************)

\* The volume controls of the card, in the order lists of tracks take them.
ControlNames == <<"m1", "m2", "m3", "m4">>
Controls == {ControlNames[i] : i \in DOMAIN ControlNames}

\* Volume levels: 0 is the off level of PyalsaaudioVolumeTrack.
MaxLevel == 2
Levels == 0..MaxLevel

\* The enum control of the card and its items (getenum()[1]).
EnumControls == {"e1"}
Items == <<"Off", "A", "B">>
ItemSet == {Items[i] : i \in DOMAIN Items}

\* Settings a PyalsaaudioEnumTrack can be constructed with: "Z" is no item.
Settings == ItemSet \cup {"Z"}

PyalsaaudioVolumeTrack(control, on) ==
    [kind |-> "volume", control |-> control, on |-> on]

PyalsaaudioEnumTrack(control, off, on) ==
    [kind |-> "enum", control |-> control, off |-> off, on |-> on]

ConnectionTrack(a, b) == [kind |-> "leaf", a |-> a, b |-> b]

MultiConnectionTrack(tracks) == [kind |-> "multi", tracks |-> tracks]

Swap(tracks) == [kind |-> "swap", tracks |-> tracks]

Push(tracks) == [kind |-> "push", tracks |-> tracks]

\* tracks[::2] and tracks[1::2]
EvenSlice(tracks) == [i \in 1..((Len(tracks) + 1) \div 2) |-> tracks[2 * i - 1]]
OddSlice(tracks) == [i \in 1..(Len(tracks) \div 2) |-> tracks[2 * i]]

\* What get gives: a value, or an exception.
Returns(b) == [val |-> b, exc |-> FALSE]
GetRaises == [val |-> FALSE, exc |-> TRUE]

\* What set gives: the world it leaves, whether it raised, and the calls it
\* made on the devices, each <<call, target>>: the target of a mixer call is
\* <<control>>, that of a JACK call <<a_name, b_name>>.
SetRaises(w, log) == [w |-> w, exc |-> TRUE, log |-> log]
SetReturns(w, log) == [w |-> w, exc |-> FALSE, log |-> log]

\* "subclient_name:port_name"
PortName(ref) == <<ref[2], ref[3]>>

RECURSIVE TrackGet(_, _, _)
RECURSIVE TrackSet(_, _, _, _)
RECURSIVE GetAll(_, _, _)
RECURSIVE SetAll(_, _, _, _)

VolumeGet(t, w, failing) ==
    IF t.control \in failing
    THEN GetRaises
    ELSE Returns(w.volume[t.control] = t.on)

VolumeSetAlwaysOn(t, v, w, failing) ==
    IF t.control \in failing
    THEN SetRaises(w, <<<<"setvolume", <<t.control>>>>>>)
    ELSE SetReturns([w EXCEPT !.volume[t.control] = t.on],
                    <<<<"setvolume", <<t.control>>>>>>)

VolumeSet(t, v, w, failing) ==
    IF t.control \in failing
    THEN SetRaises(w, <<<<"setvolume", <<t.control>>>>>>)
    ELSE SetReturns([w EXCEPT !.volume[t.control] = IF v THEN t.on ELSE 0],
                    <<<<"setvolume", <<t.control>>>>>>)

EnumGet(t, w, failing) ==
    IF t.control \in failing
    THEN GetRaises
    ELSE Returns(w.enum[t.control] = t.on)

\* A set that writes on_setting whatever v is.
EnumSetAlwaysOn(t, v, w, failing) ==
    IF t.control \in failing \/ (IF v THEN t.on ELSE t.off) \notin ItemSet
    THEN SetRaises(w, <<<<"getenum", <<t.control>>>>>>)
    ELSE SetReturns([w EXCEPT !.enum[t.control] = t.on],
                    <<<<"getenum", <<t.control>>>>, <<"setenum", <<t.control>>>>>>)

\* vs.index(...) raises ValueError when the setting is no item of the control.
EnumSet(t, v, w, failing) ==
    LET setting == IF v THEN t.on ELSE t.off
    IN  IF t.control \in failing
        THEN SetRaises(w, <<<<"getenum", <<t.control>>>>>>)
        ELSE IF setting \notin ItemSet
        THEN SetRaises(w, <<<<"getenum", <<t.control>>>>>>)
        ELSE SetReturns([w EXCEPT !.enum[t.control] = setting],
                        <<<<"getenum", <<t.control>>>>, <<"setenum", <<t.control>>>>>>)

\* KeyError when the snapshot has no record of port a.
LeafGet(t, w) ==
    IF ~HasPort(w.clients, t.a)
    THEN GetRaises
    ELSE Returns(t.b \in Connections(w.clients, t.a))

\* A set that records the connection in the snapshot itself.
LeafSetWritesSnapshot(t, v, w) ==
    LET g == LeafGet(t, w)
        call(kind) == <<kind, <<PortName(t.a), PortName(t.b)>>>>
        w1 == IF HasPort(w.clients, t.b)
              THEN [w EXCEPT !.clients = ConnectMutate(@, t.a, t.b, v)]
              ELSE w
    IN  IF g.exc
        THEN SetRaises(w, <<>>)
        ELSE IF v /\ ~g.val
        THEN SetReturns([w1 EXCEPT !.requests = Append(@, call("connect"))],
                        <<call("connect")>>)
        ELSE IF ~v /\ g.val
        THEN SetReturns([w1 EXCEPT !.requests = Append(@, call("disconnect"))],
                        <<call("disconnect")>>)
        ELSE SetReturns(w, <<>>)

\* A set that calls the JACK client without reading the snapshot.
LeafSetUnconditional(t, v, w) ==
    LET g == LeafGet(t, w)
        call(kind) == <<kind, <<PortName(t.a), PortName(t.b)>>>>
    IN  IF g.exc
        THEN SetRaises(w, <<>>)
        ELSE IF v
        THEN SetReturns([w EXCEPT !.requests = Append(@, call("connect"))],
                        <<call("connect")>>)
        ELSE SetReturns([w EXCEPT !.requests = Append(@, call("disconnect"))],
                        <<call("disconnect")>>)

\* The call goes to the JACK client; the snapshot is left as it is.
LeafSet(t, v, w) ==
    LET g == LeafGet(t, w)
        call(kind) == <<kind, <<PortName(t.a), PortName(t.b)>>>>
    IN  IF g.exc
        THEN SetRaises(w, <<>>)
        ELSE IF v /\ ~g.val
        THEN SetReturns([w EXCEPT !.requests = Append(@, call("connect"))],
                        <<call("connect")>>)
        ELSE IF ~v /\ g.val
        THEN SetReturns([w EXCEPT !.requests = Append(@, call("disconnect"))],
                        <<call("disconnect")>>)
        ELSE SetReturns(w, <<>>)

\* A get that reads the last member.
MultiGetLast(t, w, failing) ==
    IF t.tracks = <<>>
    THEN GetRaises
    ELSE TrackGet(t.tracks[Len(t.tracks)], w, failing)

\* self.tracks[0].get(): IndexError when there is no track
MultiGet(t, w, failing) ==
    IF t.tracks = <<>> THEN GetRaises ELSE TrackGet(t.tracks[1], w, failing)

\* [t.get() for t in tracks]: the values, or the first exception
GetAll(tracks, w, failing) ==
    IF tracks = <<>>
    THEN [vals |-> <<>>, exc |-> FALSE]
    ELSE LET g == TrackGet(Head(tracks), w, failing)
         IN  IF g.exc
             THEN [vals |-> <<>>, exc |-> TRUE]
             ELSE LET r == GetAll(Tail(tracks), w, failing)
                  IN  [vals |-> <<g.val>> \o r.vals, exc |-> r.exc]

\* for v, t in zip(vals, tracks): t.set(v), up to the first exception
SetAll(vals, tracks, w, failing) ==
    IF vals = <<>> \/ tracks = <<>>
    THEN SetReturns(w, <<>>)
    ELSE LET s == TrackSet(Head(tracks), Head(vals), w, failing)
         IN  IF s.exc
             THEN s
             ELSE LET r == SetAll(Tail(vals), Tail(tracks), s.w, failing)
                  IN  [w |-> r.w, exc |-> r.exc, log |-> s.log \o r.log]

\* A set that goes on to the next member when one raises.
MultiSetContinues(t, v, w, failing) ==
    LET one(i, r) ==
            LET s == TrackSet(t.tracks[i], v, r.w, failing)
            IN  [w |-> s.w, exc |-> r.exc \/ s.exc, log |-> r.log \o s.log]
        RECURSIVE upto(_)
        upto(i) == IF i = 0 THEN SetReturns(w, <<>>) ELSE one(i, upto(i - 1))
    IN  upto(Len(t.tracks))

MultiSet(t, v, w, failing) ==
    SetAll([i \in DOMAIN t.tracks |-> v], t.tracks, w, failing)

\* A get that compares the first pair only.
SwapGetFirstPair(t, w, failing) ==
    LET a_s == GetAll(EvenSlice(t.tracks), w, failing)
        b_s == GetAll(OddSlice(t.tracks), w, failing)
    IN  IF a_s.exc \/ b_s.exc
        THEN GetRaises
        ELSE Returns(a_s.vals # <<>> /\ a_s.vals[1] # b_s.vals[1])

SwapGet(t, w, failing) ==
    LET a_s == GetAll(EvenSlice(t.tracks), w, failing)
        b_s == GetAll(OddSlice(t.tracks), w, failing)
    IN  IF a_s.exc \/ b_s.exc THEN GetRaises ELSE Returns(a_s.vals # b_s.vals)

\* A set that writes the argument onto b and its negation onto a.
SwapSetFixed(t, v, w, failing) ==
    LET a == EvenSlice(t.tracks)
        b == OddSlice(t.tracks)
        a_s == GetAll(a, w, failing)
        b_s == GetAll(b, w, failing)
    IN  IF a_s.exc \/ b_s.exc
        THEN SetRaises(w, <<>>)
        ELSE LET s1 == SetAll([i \in DOMAIN b |-> v], b, w, failing)
             IN  IF s1.exc
                 THEN s1
                 ELSE LET s2 == SetAll([i \in DOMAIN a |-> ~v], a, s1.w, failing)
                      IN  [w |-> s2.w, exc |-> s2.exc, log |-> s1.log \o s2.log]

SwapSet(t, v, w, failing) ==
    LET a == EvenSlice(t.tracks)
        b == OddSlice(t.tracks)
        a_s == GetAll(a, w, failing)
        b_s == GetAll(b, w, failing)
    IN  IF a_s.exc \/ b_s.exc
        THEN SetRaises(w, <<>>)
        ELSE LET s1 == SetAll(a_s.vals, b, w, failing)
             IN  IF s1.exc
                 THEN s1
                 ELSE LET s2 == SetAll(b_s.vals, a, s1.w, failing)
                      IN  [w |-> s2.w, exc |-> s2.exc, log |-> s1.log \o s2.log]

\* A set that copies the other way: each "to" state onto its "from".
PushSetBackwards(t, v, w, failing) ==
    LET froms == EvenSlice(t.tracks)
        tos == OddSlice(t.tracks)
        u == GetAll(tos, w, failing)
    IN  IF GetAll(froms, w, failing).exc \/ u.exc
        THEN SetRaises(w, <<>>)
        ELSE SetAll(u.vals, froms, w, failing)

\* The states are read again, to be printed, once the copies are made.
PushSet(t, v, w, failing) ==
    LET froms == EvenSlice(t.tracks)
        tos == OddSlice(t.tracks)
        u == GetAll(froms, w, failing)
    IN  IF u.exc \/ GetAll(tos, w, failing).exc
        THEN SetRaises(w, <<>>)
        ELSE LET s == SetAll(u.vals, tos, w, failing)
             IN  IF s.exc
                 THEN s
                 ELSE IF GetAll(froms, s.w, failing).exc
                         \/ GetAll(tos, s.w, failing).exc
                 THEN SetRaises(s.w, s.log)
                 ELSE s

TrackGet(t, w, failing) ==
    CASE t.kind = "volume" -> VolumeGet(t, w, failing)
      [] t.kind = "enum" -> EnumGet(t, w, failing)
      [] t.kind = "leaf" -> LeafGet(t, w)
      [] t.kind = "multi" -> MultiGet(t, w, failing)
      [] t.kind \in {"swap", "push"} -> SwapGet(t, w, failing)

TrackSet(t, v, w, failing) ==
    CASE t.kind = "volume" -> VolumeSet(t, v, w, failing)
      [] t.kind = "enum" -> EnumSet(t, v, w, failing)
      [] t.kind = "leaf" -> LeafSet(t, v, w)
      [] t.kind = "multi" -> MultiSet(t, v, w, failing)
      [] t.kind = "swap" -> SwapSet(t, v, w, failing)
      [] t.kind = "push" -> PushSet(t, v, w, failing)

(***************************************************************************)
(* One call on one track, from any state of the mixer                      *)
(***************************************************************************)

\* The world the tracks run in.
World ==
    [volume |-> volume, enum |-> enum_value, clients |-> clients,
     requests |-> requests]

\* The graph the Leaf tracks are built over: every port of the server, with
\* c1:p1 connected to c1:p2, each client under its own name.
OwnNames == [n \in ClientNames |-> n]
BaselineConnections ==
    {<<<<"c1", "p1">>, <<"c1", "p2">>>>, <<<<"c1", "p2">>, <<"c1", "p1">>>>}
Baseline == Enumerate(OwnNames, JackPortNames, BaselineConnections)

KnownRefs == KnownPorts(Baseline)

\* A port the server does not have.
UnknownRef == <<"c2", "c2", "p2">>

\* Lists of n volume tracks over the first n controls, of any on-levels.
VolumeLists(n) ==
    {[i \in 1..n |-> PyalsaaudioVolumeTrack(ControlNames[i], on[i])] :
        on \in [1..n -> Levels]}

LeafTracks ==
    {ConnectionTrack(e[1], e[2]) : e \in {x \in KnownRefs \X KnownRefs : x[1] # x[2]}}

\* Two Leaf tracks are independent when they are not over the same two ports.
IndependentLeaves(l, m) == {l.a, l.b} # {m.a, m.b}

\* The lists Swap and Push are built over: a with b (from with to) pair by
\* pair; volume tracks, Bundles of volume tracks, Leaf tracks.
VolumePairs == VolumeLists(2) \cup VolumeLists(4)
BundlePairs ==
    {<<MultiConnectionTrack(<<ts[1], ts[2]>>),
       MultiConnectionTrack(<<ts[3], ts[4]>>)>> : ts \in VolumeLists(4)}
LeafPairs ==
    {ts \in LeafTracks \X LeafTracks : IndependentLeaves(ts[1], ts[2])}

\* The member lists of the Bundles set is called on: one to three volume
\* tracks, or three of four Leaf tracks, the third of which is over a port the
\* snapshot does not have.
FourLeaves ==
    <<ConnectionTrack(<<"c1", "c1", "p1">>, <<"c1", "c1", "p2">>),
      ConnectionTrack(<<"c1", "c1", "p1">>, <<"c2", "c2", "p1">>),
      ConnectionTrack(UnknownRef, <<"c1", "c1", "p1">>),
      ConnectionTrack(<<"c1", "c1", "p2">>, <<"c2", "c2", "p1">>)>>
LeafLists ==
    {[i \in 1..3 |-> FourLeaves[f[i]]] :
        f \in {g \in [1..3 -> DOMAIN FourLeaves] :
                  \A i \in 1..3, j \in 1..3 : i # j => g[i] # g[j]}}
VolumeBundles == VolumeLists(1) \cup VolumeLists(2) \cup VolumeLists(3)

\* The controls whose I/O can fail during a call.
Failures == SUBSET {ControlNames[1], ControlNames[2], ControlNames[3]}

\* The call under study has not been made.
NoCallYet == op.kind = "none"

\* The call t.set(v) is made, with its outcome r, and remembered in op.
Call(kind, t, v, failing, prev, r) ==
    /\ volume' = r.w.volume
    /\ enum_value' = r.w.enum
    /\ requests' = r.w.requests
    /\ op' = [kind |-> kind, track |-> t, v |-> v, failing |-> failing,
              pre |-> World, prev |-> prev, exc |-> r.exc, log |-> r.log]
    /\ UNCHANGED <<clients, real_remote_client, notTracks>>

SetCall(t, v, failing) ==
    Call("set", t, v, failing, FALSE, TrackSet(t, v, World, failing))

SwapVolumes ==
    /\ NoCallYet
    /\ \E ts \in VolumePairs, v \in BOOLEAN : SetCall(Swap(ts), v, {})
SwapBundles ==
    /\ NoCallYet
    /\ \E ts \in BundlePairs, v \in BOOLEAN : SetCall(Swap(ts), v, {})
SwapLeaves ==
    /\ NoCallYet
    /\ \E ts \in LeafPairs, v \in BOOLEAN : SetCall(Swap(ts), v, {})


PushVolumes ==
    /\ NoCallYet
    /\ \E ts \in VolumePairs, v \in BOOLEAN : SetCall(Push(ts), v, {})
PushBundles ==
    /\ NoCallYet
    /\ \E ts \in BundlePairs, v \in BOOLEAN : SetCall(Push(ts), v, {})
PushLeaves ==
    /\ NoCallYet
    /\ \E ts \in LeafPairs, v \in BOOLEAN : SetCall(Push(ts), v, {})

BundleVolumes ==
    /\ NoCallYet
    /\ \E ts \in VolumeBundles, v \in BOOLEAN, failing \in Failures :
           SetCall(MultiConnectionTrack(ts), v, failing)

BundleLeaves ==
    /\ NoCallYet
    /\ \E ts \in LeafLists, v \in BOOLEAN :
           SetCall(MultiConnectionTrack(ts), v, {})

\* The JACK server reports the oldest call made on it: port_connect runs.
\* What port_connect can give for the call c, over the server's answers.
JackResults(c) ==
    LET a == c[2][1]
        b == c[2][2]
    IN  UNION {
          {PortConnectResult(clients, real_remote_client, a, b,
                             c[1] = "connect", ans_a, ans_b) :
              ans_b \in Answers(CacheAfter(real_remote_client, a[1], ans_a), b[1])} :
          ans_a \in Answers(real_remote_client, a[1])}

\* port_connect runs for the oldest call and gives r.
JackDelivers(r) ==
    /\ clients' = r.clients
    /\ real_remote_client' = r.cache
    /\ requests' = Tail(requests)

JackDeliverStep ==
    /\ requests # <<>>
    /\ \E r \in JackResults(Head(requests)) : JackDelivers(r)

JackDeliver ==
    /\ JackDeliverStep
    /\ UNCHANGED <<volume, enum_value, op, notTracks>>

TrackInit ==
    /\ DebounceIdle
    /\ SetupIdle
    /\ TuiIdle
    /\ MirrorHistIdle
    /\ clients = Baseline
    /\ real_remote_client = OwnNames
    /\ volume \in [Controls -> Levels]
    /\ enum_value = [c \in EnumControls |-> Items[1]]
    /\ requests = <<>>
    /\ op = NoOp

TrackNext ==
    \/ SwapVolumes \/ SwapBundles \/ SwapLeaves
    \/ PushVolumes \/ PushBundles \/ PushLeaves
    \/ BundleVolumes \/ BundleLeaves
    \/ JackDeliver

TrackSpec == TrackInit /\ [][TrackNext]_vars

(***************************************************************************)
(* Claims about Swap, Push and Bundle                                      *)
(***************************************************************************)

\* The call made was set on a track of this class.
Made(kind) == op.kind = "set" /\ op.track.kind = kind

\* The calls of a log that went to the JACK client.
JackCalls(log) == SelectSeq(log, LAMBDA e : e[1] \in {"connect", "disconnect"})

\* No callback for the calls the track made has run yet; all have.
NoneDelivered == requests = op.pre.requests \o JackCalls(op.log)
AllDelivered == requests = <<>>

\* What get on t gave before the call, and what it gives now.
ReadBefore(t) == TrackGet(t, op.pre, {})
ReadNow(t) == TrackGet(t, World, {})

\* The two lists of the Swap (a, b) or Push (froms, tos) the call was made on.
FirstList == EvenSlice(op.track.tracks)
SecondList == OddSlice(op.track.tracks)
Members == {op.track.tracks[i] : i \in DOMAIN op.track.tracks}

\* A mixer track whose get follows its set: a volume track with an on-level
\* other than the off level 0, or a Bundle whose first member is one.
IsMixer(t) == t.kind \in {"volume", "multi"}
Faithful(t) ==
    \/ t.kind = "volume" /\ t.on # 0
    \/ t.kind = "multi" /\ t.tracks[1].kind = "volume" /\ t.tracks[1].on # 0

\* Every member reads as it did before the call.
Unmoved == \A t \in Members : ReadNow(t) = ReadBefore(t)

\* Every b reads what its a read before the call, and every a what its b read.
Exchanged ==
    \A i \in DOMAIN FirstList :
        /\ ~ReadNow(FirstList[i]).exc
        /\ ~ReadNow(SecondList[i]).exc
        /\ ReadNow(SecondList[i]).val = ReadBefore(FirstList[i]).val
        /\ ReadNow(FirstList[i]).val = ReadBefore(SecondList[i]).val

\* C4, as it is stated: for a Swap over lists A and B of independent tracks of
\* any kind and state, once Swap.set(v) has returned every B[i] reads what A[i]
\* read before the call and every A[i] what B[i] read.
C4_ExchangedOnReturn ==
    (Made("swap") /\ NoneDelivered) => (~op.exc /\ Exchanged)

\* C4: for a Swap over lists A and B of independent tracks and either v: when
\* the members are volume tracks with a non-zero on-level (or Bundles led by
\* one), after Swap.set(v) every B[i] reads what A[i] read before the call and
\* every A[i] what B[i] read; when the members are Leaf tracks over known ports
\* every member still reads as before until a port_connect callback has run,
\* and the reads are exchanged once the callbacks for the calls made have run.
C4_Exchange ==
    Made("swap") =>
        /\ (\A t \in Members : Faithful(t)) => (~op.exc /\ Exchanged)
        /\ (\A t \in Members : t.kind = "leaf") =>
              /\ ~op.exc
              /\ NoneDelivered => Unmoved
              /\ AllDelivered => Exchanged

\* C4's case: a Swap of A = [t1, t2] reading [true, false] with B = [t3, t4]
\* reading [false, true] was set with FALSE, and A reads [false, true], B
\* [true, false].
C4_Witness ==
    /\ Made("swap")
    /\ ~op.v
    /\ Len(op.track.tracks) = 4
    /\ \A t \in Members : t.kind = "volume" /\ t.on # 0
    /\ ReadBefore(FirstList[1]).val /\ ~ReadBefore(FirstList[2]).val
    /\ ~ReadBefore(SecondList[1]).val /\ ReadBefore(SecondList[2]).val
    /\ ~ReadNow(FirstList[1]).val /\ ReadNow(FirstList[2]).val
    /\ ReadNow(SecondList[1]).val /\ ~ReadNow(SecondList[2]).val

\* Every "to" reads what its "from" read before the call, and every "from"
\* reads as before.
Copied ==
    \A i \in DOMAIN FirstList :
        /\ ~ReadNow(FirstList[i]).exc
        /\ ~ReadNow(SecondList[i]).exc
        /\ ReadNow(SecondList[i]).val = ReadBefore(FirstList[i]).val
        /\ ReadNow(FirstList[i]).val = ReadBefore(FirstList[i]).val

\* C5, as it is stated: for a Push over lists from and to of independent tracks
\* of any kind and state, once Push.set(v) has returned every to[i] reads what
\* from[i] read before the call and every from[i] reads as before.
C5_CopiedOnReturn ==
    (Made("push") /\ NoneDelivered) => (~op.exc /\ Copied)

\* C5: for a Push over lists from and to of independent tracks and either v:
\* when the members are mixer tracks and every "to" is a volume track with a
\* non-zero on-level (or a Bundle led by one), after Push.set(v) every to[i]
\* reads what from[i] read before the call and every from[i] reads as before;
\* when the members are Leaf tracks over known ports every member still reads
\* as before until a port_connect callback has run, and the states are copied
\* once the callbacks for the calls made have run.
C5_Copy ==
    Made("push") =>
        /\ ( /\ \A t \in Members : IsMixer(t)
             /\ \A i \in DOMAIN SecondList : Faithful(SecondList[i]) ) =>
              (~op.exc /\ Copied)
        /\ (\A t \in Members : t.kind = "leaf") =>
              /\ ~op.exc
              /\ NoneDelivered => Unmoved
              /\ AllDelivered => Copied

\* C5's case: a Push of from = [t1] reading true onto to = [t2] reading false
\* was set, and both read true.
C5_Witness ==
    /\ Made("push")
    /\ Len(op.track.tracks) = 2
    /\ \A t \in Members : t.kind = "volume" /\ t.on # 0
    /\ ReadBefore(FirstList[1]).val /\ ~ReadBefore(SecondList[1]).val
    /\ ReadNow(FirstList[1]).val /\ ReadNow(SecondList[1]).val

\* What a member's set is made on: its control, or its two ports by name.
Target(t) ==
    IF t.kind = "volume" THEN <<t.control>> ELSE <<PortName(t.a), PortName(t.b)>>

\* The targets of the calls of a log.
Touched(log) == {log[i][2] : i \in DOMAIN log}

\* The state under a member: the level of its control, or whether its
\* connection is in the snapshot.
Underlying(t, w) ==
    IF t.kind = "volume"
    THEN w.volume[t.control]
    ELSE IF HasPort(w.clients, t.a) /\ t.b \in Connections(w.clients, t.a)
         THEN MaxLevel ELSE 0

\* Member t has had set(v) applied: its control is at the level set(v) writes,
\* or the connect or disconnect that makes its connection v was called.
Applied(t, v) ==
    IF t.kind = "volume"
    THEN /\ volume[t.control] = IF v THEN t.on ELSE 0
         /\ <<"setvolume", Target(t)>> \in {op.log[i] : i \in DOMAIN op.log}
    ELSE (ReadBefore(t).val # v) =>
            <<IF v THEN "connect" ELSE "disconnect", Target(t)>>
                \in {op.log[i] : i \in DOMAIN op.log}

\* Nothing the Bundle is not over has changed: no other control, no enum
\* control, no connection between two other ports.
OutsideUnchanged ==
    /\ \A c \in Controls :
          (<<c>> \notin {Target(t) : t \in Members}) => volume[c] = op.pre.volume[c]
    /\ enum_value = op.pre.enum
    /\ DOMAIN clients = DOMAIN op.pre.clients
    /\ \A n \in DOMAIN clients : DOMAIN clients[n] = DOMAIN op.pre.clients[n]
    /\ \A a \in KnownPorts(clients), b \in KnownPorts(clients) :
          ( /\ <<PortName(a), PortName(b)>> \notin {Target(t) : t \in Members}
            /\ <<PortName(b), PortName(a)>> \notin {Target(t) : t \in Members} ) =>
              (b \in Connections(clients, a)) = (b \in Connections(op.pre.clients, a))

\* The members whose own set(v) raises in the state before the call.
RaisingMembers ==
    {i \in DOMAIN op.track.tracks :
        TrackSet(op.track.tracks[i], op.v, op.pre, op.failing).exc}

\* C6: if member k's set raises during Bundle.set(v), then every member before
\* k has had set(v) applied, no member after k has been invoked and its state
\* is unchanged, the exception reaches the caller of Bundle.set, and the state
\* of what is outside the bundle is unchanged.
C6_PartialFailure ==
    (Made("multi") /\ RaisingMembers # {}) =>
        LET ts == op.track.tracks
            k == CHOOSE i \in RaisingMembers : \A j \in RaisingMembers : i <= j
        IN  /\ op.exc
            /\ \A i \in 1..(k - 1) : Applied(ts[i], op.v)
            /\ \A i \in (k + 1)..Len(ts) :
                  /\ Target(ts[i]) \notin Touched(op.log)
                  /\ Underlying(ts[i], World) = Underlying(ts[i], op.pre)
            /\ OutsideUnchanged

\* C6's case: a Bundle of three tracks whose second member raised on set: the
\* first member's control was moved to the level set(v) writes, the third
\* member's control is where it was, which is not the level set(v) writes.
C6_Witness ==
    /\ Made("multi")
    /\ op.exc
    /\ Len(op.track.tracks) = 3
    /\ op.failing = {op.track.tracks[2].control}
    /\ LET t1 == op.track.tracks[1]
           t3 == op.track.tracks[3]
       IN  /\ t1.kind = "volume"
           /\ volume[t1.control] # op.pre.volume[t1.control]
           /\ volume[t1.control] = IF op.v THEN t1.on ELSE 0
           /\ volume[t3.control] = op.pre.volume[t3.control]
           /\ volume[t3.control] # IF op.v THEN t3.on ELSE 0

(***************************************************************************)
(* One keystroke on one Leaf or MixerLeaf track: track.set(not track.get()) *)
(***************************************************************************)

\* The references of the server's ports, and of one it does not have.
AllRefs == {RefOf(OwnNames, pn) : pn \in JackPortNames} \cup {UnknownRef}

VolumeToggles == {PyalsaaudioVolumeTrack(ControlNames[1], on) : on \in Levels}

EnumToggles ==
    {PyalsaaudioEnumTrack(c, s[1], s[2]) : c \in EnumControls, s \in Settings \X Settings}

LeafToggles ==
    {ConnectionTrack(e[1], e[2]) : e \in {x \in AllRefs \X AllRefs : x[1] # x[2]}}

\* previous = t.get(); t.set(not previous).  An exception of get leaves the
\* statement before set is called.
Toggle(t) ==
    LET previous == TrackGet(t, World, {})
    IN  IF previous.exc
        THEN Call("toggle", t, FALSE, {}, FALSE, SetRaises(World, <<>>))
        ELSE Call("toggle", t, ~previous.val, {}, previous.val,
                  TrackSet(t, ~previous.val, World, {}))

ToggleVolume ==
    /\ NoCallYet
    /\ \E t \in VolumeToggles : Toggle(t)

ToggleEnum ==
    /\ NoCallYet
    /\ \E t \in EnumToggles : Toggle(t)

ToggleLeaf ==
    /\ NoCallYet
    /\ \E t \in LeafToggles : Toggle(t)

\* Any level of the first control, any item of the enum control, any graph of
\* the server enumerated into the snapshot.
ToggleInit ==
    /\ DebounceIdle
    /\ SetupIdle
    /\ TuiIdle
    /\ MirrorHistIdle
    /\ \E ports \in SUBSET JackPortNames :
       \E conns \in ServerGraphs(ports) :
        /\ clients = Enumerate(OwnNames, ports, conns)
        /\ real_remote_client =
              [n \in ClientNames |->
                  IF \E pn \in ports : pn[1] = n THEN n ELSE NoName]
    /\ volume \in {[c \in Controls |-> IF c = ControlNames[1] THEN l ELSE 0] :
                      l \in Levels}
    /\ enum_value \in [EnumControls -> ItemSet]
    /\ requests = <<>>
    /\ op = NoOp

\* The MixerLeaf tracks of the keystrokes, and the device failing or not.
MixerLeaves == VolumeToggles \cup EnumToggles
LeafFailures(t) == {{}, {t.control}}

\* One get, and one set(v), on a MixerLeaf track: get leaves the world as it is.
GetMixerLeaf ==
    /\ NoCallYet
    /\ \E t \in MixerLeaves : \E failing \in LeafFailures(t) :
           Call("get", t, FALSE, failing, TrackGet(t, World, failing),
                SetReturns(World, <<>>))

SetMixerLeaf ==
    /\ NoCallYet
    /\ \E t \in MixerLeaves, v \in BOOLEAN : \E failing \in LeafFailures(t) :
           SetCall(t, v, failing)

ToggleNext ==
    \/ ToggleVolume \/ ToggleEnum \/ ToggleLeaf
    \/ GetMixerLeaf \/ SetMixerLeaf
    \/ JackDeliver

ToggleSpec == ToggleInit /\ [][ToggleNext]_vars

(***************************************************************************)
(* Claims about the round trip                                             *)
(***************************************************************************)

Toggled(kind) == op.kind = "toggle" /\ op.track.kind = kind

\* C8, as it is stated: for every Leaf, enum or volume track, whatever its
\* constructor arguments and the state under it, with previous = track.get(),
\* once track.set(not previous) has returned track.get() returns not previous.
C8_RoundTripOnReturn ==
    (op.kind = "toggle" /\ ~op.exc /\ NoneDelivered) =>
        ReadNow(op.track) = Returns(~op.prev)

\* C8: with previous = track.get(): for a volume track with a non-zero
\* on-level, and for an enum track whose on and off settings are two different
\* items of the control, track.set(not previous) returns and track.get() then
\* returns not previous; for a Leaf track over two ports of the snapshot,
\* track.set(not previous) returns, track.get() still returns previous until
\* the port_connect callback for the call has run, and returns not previous
\* once it has.
C8_RoundTrip ==
    op.kind = "toggle" =>
        LET t == op.track
        IN  /\ (t.kind = "volume" /\ t.on # 0) =>
                  (~op.exc /\ ReadNow(t) = Returns(~op.prev))
            /\ ( /\ t.kind = "enum"
                 /\ t.on # t.off
                 /\ t.on \in ItemSet
                 /\ t.off \in ItemSet ) =>
                  (~op.exc /\ ReadNow(t) = Returns(~op.prev))
            /\ ( /\ t.kind = "leaf"
                 /\ HasPort(op.pre.clients, t.a)
                 /\ HasPort(op.pre.clients, t.b) ) =>
                  /\ ~op.exc
                  /\ NoneDelivered => ReadNow(t) = Returns(op.prev)
                  /\ AllDelivered => ReadNow(t) = Returns(~op.prev)

\* C8's case: a Leaf track that read false was toggled, the callback for its
\* connect has run, and it reads true.
C8_Witness ==
    /\ Toggled("leaf")
    /\ ~op.prev
    /\ ~op.exc
    /\ op.log # <<>>
    /\ AllDelivered
    /\ ReadNow(op.track) = Returns(TRUE)

\* The call recorded in op: get or set, on a track of the class.
Called(call, kind) == op.kind = call /\ op.track.kind = kind

\* What the call has left of the mixer, but for the control of its track.
OtherControlsKept ==
    /\ \A c \in Controls \ {op.track.control} : volume[c] = op.pre.volume[c]
    /\ \A c \in EnumControls \ {op.track.control} : enum_value[c] = op.pre.enum[c]
    /\ requests = op.pre.requests

\* C30: an enum track's get is true iff the control's current item is
\* on_setting, its set(true) writes on_setting and its set(false) off_setting;
\* a volume track's get is true iff the current level is on_level, its
\* set(true) writes on_level and its set(false) level 0.  A get writes nothing,
\* a set writes its own control only, and with a working device and settings
\* that are items of the control the calls return.
C30_MixerLeafGetSet ==
    LET t == op.track
    IN  /\ (Called("get", "enum") /\ ~op.prev.exc) =>
               /\ op.prev.val = (op.pre.enum[t.control] = t.on)
               /\ World = op.pre
        /\ (Called("get", "volume") /\ ~op.prev.exc) =>
               /\ op.prev.val = (op.pre.volume[t.control] = t.on)
               /\ World = op.pre
        /\ (Called("set", "enum") /\ ~op.exc) =>
               /\ enum_value[t.control] = IF op.v THEN t.on ELSE t.off
               /\ OtherControlsKept
        /\ (Called("set", "volume") /\ ~op.exc) =>
               /\ volume[t.control] = IF op.v THEN t.on ELSE 0
               /\ OtherControlsKept
        /\ (Called("get", "enum") \/ Called("get", "volume")) =>
               op.prev.exc = (op.failing # {})
        /\ Called("set", "volume") => op.exc = (op.failing # {})
        /\ Called("set", "enum") =>
               op.exc = (op.failing # {}
                           \/ (IF op.v THEN t.on ELSE t.off) \notin ItemSet)

\* C30's case: set(false) on an enum track moved the control to off_setting,
\* an item other than on_setting and than the one the control was on.
C30_Witness ==
    /\ Called("set", "enum")
    /\ ~op.v
    /\ ~op.exc
    /\ op.track.off # op.track.on
    /\ op.pre.enum[op.track.control] # op.track.off
    /\ enum_value[op.track.control] = op.track.off

(***************************************************************************)
(* The control loop (portman/tui.py)                                       *)
(*                                                                         *)
(* update_the_status is called by the main thread, at start-up and after   *)
(* each keystroke, and by the debouncer thread for a settle notification.  *)
(* Nothing serialises the two threads: each call is two steps, conf() and  *)
(* the rest, and the steps of the two threads interleave with each other   *)
(* and with the callbacks of the mirror.                                   *)
(***************************************************************************)

\* SimpleEqMixin / KeyedEqMixin: the same class and equal constructor
\* arguments, whichever instances they are.
RECURSIVE TrackEq(_, _)
TrackEq(t, u) ==
    /\ t.kind = u.kind
    /\ CASE t.kind = "volume" -> t.control = u.control /\ t.on = u.on
         [] t.kind = "enum" ->
                t.control = u.control /\ t.off = u.off /\ t.on = u.on
         [] t.kind = "leaf" -> t.a = u.a /\ t.b = u.b
         [] OTHER ->
                /\ Len(t.tracks) = Len(u.tracks)
                /\ \A i \in DOMAIN t.tracks : TrackEq(t.tracks[i], u.tracks[i])

\* keys2 == keys, of two dicts
DictEq(m1, m2) ==
    /\ DOMAIN m1 = DOMAIN m2
    /\ \A k \in DOMAIN m1 : TrackEq(m1[k], m2[k])

\* PortMan.stereo_speaker_ref(client_name): KeyError when the snapshot has no
\* such client, Exception when its port names are not a set it knows (here:
\* the one port p1).
stereo_speaker_ref(cl, client_name) ==
    IF client_name \notin DOMAIN cl
    THEN [exc |-> TRUE, refs |-> <<>>]
    ELSE IF {p[3] : p \in DOMAIN cl[client_name]} # {"p1"}
    THEN [exc |-> TRUE, refs |-> <<>>]
    ELSE [exc |-> FALSE,
          refs |-> <<CHOOSE p \in DOMAIN cl[client_name] : p[3] = "p1">>]

\* The output ports the operator's script took from client c1 when it started.
headphones_monitor == <<<<"c1", "c1", "p1">>>>

\* PortMan.multi_connection_track(a_refs, b_refs)
multi_connection_track(a_refs, b_refs) ==
    MultiConnectionTrack(
        [i \in 1..(IF Len(a_refs) < Len(b_refs) THEN Len(a_refs) ELSE Len(b_refs)) |->
            ConnectionTrack(a_refs[i], b_refs[i])])

\* Scarlett.switch_mix_stereo: a Bundle of two volume tracks.
switch_mix_stereo ==
    MultiConnectionTrack(<<PyalsaaudioVolumeTrack(ControlNames[1], MaxLevel),
                           PyalsaaudioVolumeTrack(ControlNames[2], MaxLevel)>>)

\* The binding function of the operator's script: no binding without client
\* c1; else key X for the mix and key S for the connection of the monitor to
\* the speaker of client c2, which must be there.
conf(cl) ==
    IF "c1" \notin DOMAIN cl
    THEN [exc |-> FALSE, keys |-> NoKeys]
    ELSE LET laptop_speaker == stereo_speaker_ref(cl, "c2")
         IN  IF laptop_speaker.exc
             THEN [exc |-> TRUE, keys |-> NoKeys]
             ELSE [exc |-> FALSE,
                   keys |-> [k \in {"X", "S"} |->
                       IF k = "X"
                       THEN switch_mix_stereo
                       ELSE multi_connection_track(headphones_monitor,
                                                   laptop_speaker.refs)]]

\* str.upper and str.lower, on the characters the operator types.
upper(c) ==
    CASE c = "x" -> "X" [] c = "s" -> "S" [] c = "o" -> "O" [] OTHER -> c

lower(c) ==
    CASE c = "X" -> "x" [] c = "S" -> "s" [] c = "O" -> "o" [] OTHER -> c

\* The order in which conf() inserts the keys it binds.
InsertionOrder == <<"X", "S">>

\* The keys of m.items(), in order.
items(m) == SelectSeq(InsertionOrder, LAMBDA k : k \in DOMAIN m)

\* A status line that shows every key in lower case.
get_the_status_lower(m, w) ==
    LET order == items(m)
    IN  [i \in 1..Len(order) |-> lower(order[i])]

\* get_the_status, for the bindings m: a sequence of characters.
get_the_status(m, w) ==
    LET order == items(m)
    IN  [i \in 1..Len(order) |->
            IF TrackGet(m[order[i]], w, {}).val
            THEN upper(order[i])
            ELSE lower(order[i])]

\* get_the_status raises when get of a bound track does.
StatusRaises(m, w) == \E k \in DOMAIN m : TrackGet(m[k], w, {}).exc

\* An update_the_status that takes keys2 for the bindings whatever they were.
RestAlwaysReplaces(keys2) ==
    [keys |-> keys2,
     replaced |-> TRUE,
     describes |-> Cardinality(DOMAIN keys2),
     exc |-> StatusRaises(keys2, World),
     status |-> IF StatusRaises(keys2, World) THEN <<>>
                ELSE get_the_status(keys2, World)]

\* update_the_status after keys2 = conf(): the bindings it leaves, whether it
\* replaced them, the print calls it made on tracks, whether it raised, the
\* status line it printed.
\* MultiConnectionTrack.print catches what the print of a member raises.
Rest(keys2) ==
    LET equal == DictEq(keys2, keys)
        new == IF equal THEN keys ELSE keys2
    IN  [keys |-> new,
         replaced |-> ~equal,
         describes |-> IF equal THEN 0 ELSE Cardinality(DOMAIN keys2),
         exc |-> StatusRaises(new, World),
         status |-> IF StatusRaises(new, World) THEN <<>>
                    ELSE get_the_status(new, World)]

\* The characters the operator types, but for Ctrl-C.
Keystrokes == {"X", "x", "S", "O"}

\* The mixer controls whose I/O can fail while a keystroke is dispatched.
DeviceFailures == {{}, {ControlNames[1]}, {ControlNames[2]}}

\* The attributes the terminal can have when wrapper starts.
TerminalAttrs == {"cooked", "noecho"}

\* The calls on the JACK client that can await their callback.
MaxRequests == 1

\* get_rawchars up to its yield: old = tcgetattr(fd), tty.setraw(fd).
get_rawchars_enter(t) == [attrs |-> "raw", old |-> t.attrs]

\* A get_rawchars without its finally: tcsetattr only after the loop ended.
get_rawchars_exit_unprotected(t, how) ==
    IF how = "break" THEN [t EXCEPT !.attrs = t.old] ELSE t

\* get_rawchars from its yield on: the finally clause, which runs when gen()
\* ended (how = "break") and when an exception leaves the with block
\* (how = "exception").
get_rawchars_exit(t, how) == [t EXCEPT !.attrs = t.old]

\* pm.graph_order_callback(update_the_status) is in force.
Registered ==
    \/ main_pc = "read"
    \/ main_pc \in {"conf", "rest"} /\ trigger = "key"

\* An exception leaves wrapper: it has no except clause.  inside: the
\* exception leaves the with block of get_rawchars on its way.
Raised(what, inside) ==
    /\ main_pc' = "crashed"
    /\ crash' = what
    /\ term' = IF inside THEN get_rawchars_exit(term, "exception") ELSE term

\* The main thread calls conf().  main_same: a rebuild whose conf() saw this
\* snapshot has been completed and no other rebuild is under way; with
\* main_clean still true at the end of this rebuild, the snapshot has not
\* changed since the binding function was invoked for that one.
MainConf ==
    /\ main_pc = "conf"
    /\ LET r == conf(clients)
       IN  IF r.exc
           THEN /\ Raised("conf", trigger = "key")
                /\ UNCHANGED <<main_keys2, main_clean, main_same>>
           ELSE /\ main_pc' = "rest"
                /\ main_keys2' = r.keys
                /\ main_clean' = TRUE
                /\ main_same' = (fresh /\ settle_pc = "idle")
                /\ UNCHANGED <<crash, term>>
    /\ UNCHANGED <<keys, trigger, settle_pc, settle_keys2, settle_clean,
                   settle_same, fresh, rebuilt, caught, dispatch,
                   mirrorVars, debVars, setupVars, trackVars>>

\* The main thread goes on from keys2 == keys to the status line; after the
\* call at start-up it enters the with blocks and reads the first character.
MainRest ==
    /\ main_pc = "rest"
    /\ LET r == Rest(main_keys2)
       IN  /\ keys' = r.keys
           /\ rebuilt' = [by |-> "main", trigger |-> trigger,
                          same |-> main_same /\ main_clean,
                          replaced |-> r.replaced, describes |-> r.describes,
                          printed |-> ~r.exc, status |-> r.status]
           /\ IF r.exc
              THEN Raised("status", trigger = "key")
              ELSE /\ main_pc' = "read"
                   /\ term' = IF trigger = "startup"
                              THEN get_rawchars_enter(term)
                              ELSE term
                   /\ UNCHANGED crash
    /\ dispatch' = IF trigger = "key"
                   THEN [dispatch EXCEPT !.rebuilds = @ + 1]
                   ELSE dispatch
    /\ fresh' = (fresh \/ main_clean)
    /\ main_keys2' = NoKeys
    /\ main_clean' = FALSE
    /\ main_same' = FALSE
    /\ UNCHANGED <<trigger, settle_pc, settle_keys2, settle_clean, settle_same,
                   caught, mirrorVars, debVars, setupVars, trackVars>>

\* What the loop did for the character c: the keys whose track it called get
\* on, the set calls <<key, v>> it made, the rebuilds it has run since, and
\* whether port_connect has since dropped an event for a port it did not know.
Dispatched(c, gets, sets) ==
    [char |-> c, gets |-> gets, sets |-> sets, rebuilds |-> 0, dropped |-> FALSE]

\* A character is read: the track bound to its upper-case form is toggled, and
\* update_the_status is called.  The I/O of the mixer controls in failing
\* raises alsaaudio.ALSAAudioError.
Keystroke ==
    /\ main_pc = "read"
    /\ Len(requests) < MaxRequests
    /\ \E c \in Keystrokes, failing \in DeviceFailures :
          IF upper(c) \in DOMAIN keys
          THEN LET track == keys[upper(c)]
                   previous == TrackGet(track, World, failing)
                   s == TrackSet(track, ~previous.val, World, failing)
               IN  IF previous.exc
                   THEN /\ Raised(IF TrackGet(track, World, {}).exc
                                  THEN "dispatch" ELSE "device", TRUE)
                        /\ dispatch' = Dispatched(c, <<upper(c)>>, <<>>)
                        /\ UNCHANGED <<trigger, volume, requests>>
                   ELSE /\ volume' = s.w.volume
                        /\ requests' = s.w.requests
                        /\ dispatch' = Dispatched(c, <<upper(c)>>,
                                           <<<<upper(c), ~previous.val>>>>)
                        /\ IF s.exc
                           THEN /\ Raised(
                                     IF TrackSet(track, ~previous.val, World, {}).exc
                                     THEN "dispatch" ELSE "device", TRUE)
                                /\ UNCHANGED trigger
                           ELSE /\ main_pc' = "conf"
                                /\ trigger' = "key"
                                /\ UNCHANGED <<crash, term>>
          ELSE /\ main_pc' = "conf"
               /\ trigger' = "key"
               /\ dispatch' = Dispatched(c, <<>>, <<>>)
               /\ UNCHANGED <<crash, term, volume, requests>>
    /\ UNCHANGED <<keys, main_keys2, main_clean, main_same, settle_pc,
                   settle_keys2, settle_clean, settle_same, fresh, rebuilt,
                   caught, enum_value, op, mirrorVars, debVars, setupVars>>

\* Ctrl-C is read: gen() breaks, the for loop ends, the with blocks are left.
Interrupt ==
    /\ main_pc = "read"
    /\ main_pc' = "ended"
    /\ term' = get_rawchars_exit(term, "break")
    /\ UNCHANGED <<keys, trigger, main_keys2, main_clean, main_same, settle_pc,
                   settle_keys2, settle_clean, settle_same, fresh, rebuilt,
                   crash, caught, dispatch, mirrorVars, debVars, setupVars, trackVars>>

\* The input ends: sys.stdin.read(1) returns "", and ord("") raises TypeError
\* in gen().
EndOfInput ==
    /\ main_pc = "read"
    /\ Raised("eof", TRUE)
    /\ UNCHANGED <<keys, trigger, main_keys2, main_clean, main_same, settle_pc,
                   settle_keys2, settle_clean, settle_same, fresh, rebuilt,
                   caught, dispatch, mirrorVars, debVars, setupVars, trackVars>>

\* A settle notification: the debouncer thread calls update_the_status, which
\* calls conf(); the thread catches what it raises.
SettleConf ==
    /\ Registered
    /\ settle_pc = "idle"
    /\ LET r == conf(clients)
       IN  IF r.exc
           THEN /\ caught' = "conf"
                /\ UNCHANGED <<settle_pc, settle_keys2, settle_clean, settle_same>>
           ELSE /\ settle_pc' = "rest"
                /\ settle_keys2' = r.keys
                /\ settle_clean' = TRUE
                /\ settle_same' = (fresh /\ main_pc \notin {"conf", "rest"})
                /\ caught' = "none"
    /\ UNCHANGED <<keys, main_pc, trigger, main_keys2, main_clean, main_same,
                   fresh, rebuilt, crash, term, dispatch,
                   mirrorVars, debVars, setupVars, trackVars>>

\* The debouncer thread goes on from keys2 == keys to the status line.
SettleRest ==
    /\ settle_pc = "rest"
    /\ LET r == Rest(settle_keys2)
       IN  /\ keys' = r.keys
           /\ rebuilt' = [by |-> "settle", trigger |-> "settle",
                          same |-> settle_same /\ settle_clean,
                          replaced |-> r.replaced, describes |-> r.describes,
                          printed |-> ~r.exc, status |-> r.status]
           /\ caught' = IF r.exc THEN "status" ELSE "none"
    /\ fresh' = (fresh \/ settle_clean)
    /\ settle_pc' = "idle"
    /\ settle_keys2' = NoKeys
    /\ settle_clean' = FALSE
    /\ settle_same' = FALSE
    /\ UNCHANGED <<main_pc, trigger, main_keys2, main_clean, main_same, crash,
                   term, dispatch, mirrorVars, debVars, setupVars, trackVars>>

\* The snapshot moved: what conf() saw is no longer what is there.
SnapshotMoves ==
    /\ fresh' = (fresh /\ clients' = clients)
    /\ main_clean' = (main_clean /\ clients' = clients)
    /\ settle_clean' = (settle_clean /\ clients' = clients)
    /\ UNCHANGED <<keys, main_pc, trigger, main_keys2, main_same, settle_pc,
                   settle_keys2, settle_same, rebuilt, crash, caught, term,
                   debVars, setupVars>>

\* A client comes or goes while the loop runs.
TuiClientRegistration ==
    /\ ClientRegistrationStep
    /\ SnapshotMoves
    /\ UNCHANGED <<dispatch, trackVars>>

\* The server reports a connect or disconnect a track asked for; dropped
\* remembers that port_connect found a port unknown and recorded nothing.
TuiJackDeliver ==
    /\ requests # <<>>
    /\ \E r \in JackResults(Head(requests)) :
          /\ JackDelivers(r)
          /\ dispatch' = IF dispatch.char # "none" /\ r.ignored
                         THEN [dispatch EXCEPT !.dropped = TRUE]
                         ELSE dispatch
    /\ SnapshotMoves
    /\ UNCHANGED <<volume, enum_value, op, last, twice, mirror_ignored, mirror_exc,
                   connecting, seen>>

\* The graphs the loop starts over: with and without client c2.
TuiPortSets == {JackPortNames, {pn \in JackPortNames : pn[1] = "c1"}}

TuiInit ==
    /\ DebounceIdle
    /\ SetupIdle
    /\ MirrorHistIdle
    /\ TuiStart
    /\ term \in {Terminal(attrs) : attrs \in TerminalAttrs}
    /\ \E ports \in TuiPortSets :
        /\ clients = Enumerate(OwnNames, ports, {})
        /\ real_remote_client =
              [n \in ClientNames |->
                  IF \E pn \in ports : pn[1] = n THEN n ELSE NoName]
    /\ volume = [c \in Controls |-> 0]
    /\ enum_value = [c \in EnumControls |-> Items[1]]
    /\ requests = <<>>
    /\ op = NoOp

TuiNext ==
    \/ MainConf \/ MainRest \/ Keystroke \/ Interrupt \/ EndOfInput
    \/ SettleConf \/ SettleRest
    \/ TuiClientRegistration \/ TuiJackDeliver

TuiSpec == TuiInit /\ [][TuiNext]_vars

(***************************************************************************)
(* Claims about the control loop                                           *)
(***************************************************************************)

\* C7: when the binding function is invoked twice with no change to the
\* snapshot in between (nor until the second rebuild is over), the rebuild of
\* the second invocation finds the map equal to the live bindings: it does not
\* replace them and calls no describe.
C7_StableBindings ==
    (rebuilt.by # "none" /\ rebuilt.same) =>
        (~rebuilt.replaced /\ rebuilt.describes = 0)

\* C10: an exception raised by the binding function during a rebuild, be it the
\* rebuild at start-up, for a settle notification or after a keystroke, does
\* not end the control loop.
C10_RebuildExceptionCaught == crash # "conf"

\* C11: an exception that get or set of a bound track raises for a device I/O
\* failure while a keystroke is dispatched does not end the keystroke loop: the
\* loop goes on reading characters.
C11_DeviceFailureSurvived == crash # "device"

\* The character read last has been dealt with: the loop is about to read the
\* next one, or is over.
DispatchOver ==
    /\ dispatch.char # "none"
    /\ main_pc \in {"read", "crashed", "ended"}

\* C13: for a character other than Ctrl-C whose upper-case form is a bound
\* key, of either case, the loop makes exactly one set call, on the track bound
\* to that key; for a character that is not bound it makes no set call; in both
\* cases exactly one rebuild runs afterwards.
C13_OneToggleOneRebuild ==
    DispatchOver =>
        /\ dispatch.gets # <<>> =>
               \E v \in BOOLEAN : dispatch.sets = <<<<upper(dispatch.char), v>>>>
        /\ dispatch.gets = <<>> => dispatch.sets = <<>>
        /\ dispatch.rebuilds = 1

\* A rebuild prints its status line in this step.
StatusPrinted ==
    \/ main_pc = "rest" /\ main_pc' = "read"
    \/ settle_pc = "rest" /\ settle_pc' = "idle" /\ caught' = "none"

\* The status line st is right for the bindings m, read in the world w.
StatusShows(st, m, w) ==
    LET order == items(m)
    IN  /\ Len(st) = Cardinality(DOMAIN m)
        /\ Len(order) = Cardinality(DOMAIN m)
        /\ \A i \in 1..Len(order) :
               /\ st[i] \in {upper(order[i]), lower(order[i])}
               /\ st[i] = upper(order[i]) <=> TrackGet(m[order[i]], w, {}).val

\* C14: the status line a rebuild prints has one character per bound key, in
\* the order the keys were inserted, and the character of a key is its
\* upper-case form if get of the key's track returns true at that moment, its
\* lower-case form if it returns false.
C14_StatusLine ==
    [][StatusPrinted => StatusShows(rebuilt'.status, keys', World)]_vars

\* C14's case: a status line was printed with key X on and key S off.
C14_Witness ==
    /\ rebuilt.by # "none"
    /\ rebuilt.printed
    /\ rebuilt.status = <<"X", "s">>

\* The rebuild that goes on with keys2 in this step replaces the live bindings
\* and has every track of keys2 describe itself when keys2 is not equal to
\* them, and leaves them with no describe when it is.
ReplacedIffChanged(keys2) ==
    IF DictEq(keys2, keys)
    THEN /\ keys' = keys
         /\ ~rebuilt'.replaced
         /\ rebuilt'.describes = 0
    ELSE /\ keys' = keys2
         /\ rebuilt'.replaced
         /\ rebuilt'.describes = Cardinality(DOMAIN keys2)

C16_TerminalRestored ==
    (main_pc \in {"ended", "crashed"} /\ term.old # "none") =>
        (term.attrs = term.old /\ term.attrs \in TerminalAttrs)

\* C16's case: the loop was entered from a terminal without echo and left by
\* the exception of a device, and the terminal is without echo again.
C16_Witness ==
    /\ main_pc = "crashed"
    /\ crash = "device"
    /\ term = [attrs |-> "noecho", old |-> "noecho"]

\* The set call <<key, v>> made for the character read last.
LastSet == dispatch.sets[1]

\* The status line printed last shows key in upper case.
ShownOn(key) ==
    LET order == items(keys)
    IN  \E i \in 1..Len(order) :
           order[i] = key /\ rebuilt.status[i] = upper(key)

\* The rebuild printed last is the one the main thread ran after the set call
\* of the character read last, and the key of that call is still bound.
SetThenRebuilt ==
    /\ dispatch.char # "none"
    /\ dispatch.sets # <<>>
    /\ dispatch.rebuilds = 1
    /\ rebuilt.by = "main"
    /\ rebuilt.trigger = "key"
    /\ rebuilt.printed
    /\ LastSet[1] \in DOMAIN keys

\* The track bound to key is over mixer controls, not over ports of the graph.
MixerKey(m, key) == m[key].tracks[1].kind = "volume"

MaxArgs == 3

\* The channel counts pyscarlett.get_channels() reports for the device.
ScarlettOutputs == 2
ScarlettPcms == 1
ScarlettInputs == 3

\* None, in a list of setting names.
NoSetting == "None"

\* The names a script passes for the channels of the device.
SettingNames == {NoSetting, "A", "B"}

\* The tracks a script passes to Swap and Push.
ArgTracks ==
    {PyalsaaudioVolumeTrack(ControlNames[1], MaxLevel),
     PyalsaaudioVolumeTrack(ControlNames[2], MaxLevel),
     ConnectionTrack(<<"c1", "c1", "p1">>, <<"c2", "c2", "p1">>)}

\* The lists of at most MaxArgs elements of S.
ArgLists(S) == UNION {[1..n -> S] : n \in 0..MaxArgs}

AssertionError == [exc |-> TRUE, track |-> <<>>, calls |-> <<>>]

Constructed(track) == [exc |-> FALSE, track |-> track, calls |-> <<>>]

\* A Swap.__init__ without its assert.
SwapInitUnchecked(tracks) == Constructed(Swap(tracks))

\* Swap.__init__: key, the assert, the two slices.
SwapInit(tracks) ==
    IF Len(tracks) % 2 # 0 THEN AssertionError ELSE Constructed(Swap(tracks))

\* Push.__init__
PushInit(tracks) ==
    IF Len(tracks) % 2 # 0 THEN AssertionError ELSE Constructed(Push(tracks))

\* The switches of a Scarlett bundle: one enum track per name that is not
\* None, on the control of its channel; first is the number enumerate starts
\* at, plus one where the control is named 1 + index.
Switches(control, first, args) ==
    LET named == SelectSeq([i \in 1..Len(args) |-> i],
                           LAMBDA i : args[i] # NoSetting)
    IN  [j \in 1..Len(named) |->
            PyalsaaudioEnumTrack(<<control, first + named[j] - 1>>,
                                 "Off", args[named[j]])]

\* Scarlett.set_analogue_outputs
set_analogue_outputs(args) ==
    IF Len(args) # ScarlettOutputs
    THEN AssertionError
    ELSE Constructed(MultiConnectionTrack(Switches("Analogue Output", 1, args)))

\* Scarlett.set_pcm_outputs
set_pcm_outputs(args) ==
    IF Len(args) # ScarlettPcms
    THEN AssertionError
    ELSE Constructed(MultiConnectionTrack(Switches("PCM", 1, args)))

\* Scarlett.set_mixer_inputs
set_mixer_inputs(args) ==
    IF Len(args) # ScarlettInputs
    THEN AssertionError
    ELSE Constructed(MultiConnectionTrack(Switches("Mixer Input", 1, args)))

\* The constructor call is made, and remembered in op with what it gave.
Construct(kind, args, r) ==
    /\ op' = [kind |-> kind, args |-> args, exc |-> r.exc,
              track |-> r.track, calls |-> r.calls]
    /\ UNCHANGED <<volume, enum_value, requests, mirrorVars, debVars, setupVars, tuiVars>>

ConstructSwap ==
    /\ NoCallYet
    /\ \E tracks \in ArgLists(ArgTracks) :
           Construct("Swap", tracks, SwapInit(tracks))

ConstructPush ==
    /\ NoCallYet
    /\ \E tracks \in ArgLists(ArgTracks) :
           Construct("Push", tracks, PushInit(tracks))

SetAnalogueOutputs ==
    /\ NoCallYet
    /\ \E args \in ArgLists(SettingNames) :
           Construct("set_analogue_outputs", args, set_analogue_outputs(args))

SetPcmOutputs ==
    /\ NoCallYet
    /\ \E args \in ArgLists(SettingNames) :
           Construct("set_pcm_outputs", args, set_pcm_outputs(args))

SetMixerInputs ==
    /\ NoCallYet
    /\ \E args \in ArgLists(SettingNames) :
           Construct("set_mixer_inputs", args, set_mixer_inputs(args))

ConstructInit ==
    MirrorIdle /\ DebounceIdle /\ TracksIdle /\ TuiIdle /\ SetupIdle

ConstructNext ==
    \/ ConstructSwap \/ ConstructPush
    \/ SetAnalogueOutputs \/ SetPcmOutputs \/ SetMixerInputs

ConstructSpec == ConstructInit /\ [][ConstructNext]_vars

\* The number of arguments the constructor called last accepts.
Accepts(n) ==
    CASE op.kind \in {"Swap", "Push"} -> n % 2 = 0
      [] op.kind = "set_analogue_outputs" -> n = ScarlettOutputs
      [] op.kind = "set_pcm_outputs" -> n = ScarlettPcms
      [] op.kind = "set_mixer_inputs" -> n = ScarlettInputs

C32_NoEmptyComposite ==
    (op.kind # "none" /\ ~op.exc) => Len(op.track.tracks) > 0

(***************************************************************************)
(* port_connect against the readers of the snapshot                        *)
(*                                                                         *)
(* port_connect runs on JACK's notification thread; the rebuilds and the   *)
(* get of the tracks run on the main thread and on the debouncer thread.   *)
(* No lock is taken on either side: a reader can run between any two       *)
(* statements of the callback, and so between its two writes.              *)
(***************************************************************************)

\* The first write of port_connect: the event is recorded on b's port.
ConnectWriteB(cl, a_ref, b_ref, connect) ==
    LET b_conn == cl[b_ref[1]][b_ref]
    IN  Store(cl, b_ref[1], Store(cl[b_ref[1]], b_ref,
              IF connect THEN b_conn \cup {a_ref} ELSE b_conn \ {a_ref}))

\* The second write of port_connect: the event is recorded on a's port.
ConnectWriteA(cl, a_ref, b_ref, connect) ==
    LET a_conn == cl[a_ref[1]][a_ref]
    IN  Store(cl, a_ref[1], Store(cl[a_ref[1]], a_ref,
              IF connect THEN a_conn \cup {b_ref} ELSE a_conn \ {b_ref}))

\* port_connect up to and with its first write.
PortConnectBegin ==
    /\ connecting = <<>>
    /\ \E a \in JackPortNames, b \in JackPortNames, connect \in BOOLEAN :
       \E ans_a \in Answers(real_remote_client, a[1]) :
       \E ans_b \in Answers(CacheAfter(real_remote_client, a[1], ans_a), b[1]) :
          LET a_ref == jack_port_name_to_ref(real_remote_client, a, ans_a)
              cache1 == CacheAfter(real_remote_client, a[1], ans_a)
              b_ref == jack_port_name_to_ref(cache1, b, ans_b)
              cl1 == SetDefault(clients, a_ref[1], EmptyDict)
              cl2 == SetDefault(cl1, b_ref[1], EmptyDict)
          IN  /\ real_remote_client' = CacheAfter(cache1, b[1], ans_b)
              /\ IF ConnectKeyError(cl2, a_ref, b_ref)
                 THEN /\ clients' = cl2
                      /\ connecting' = <<>>
                 ELSE /\ clients' = ConnectWriteB(cl2, a_ref, b_ref, connect)
                      /\ connecting' = <<a_ref, b_ref, connect>>
    /\ UNCHANGED <<last, twice, mirror_ignored, mirror_exc, seen, notMirror>>

\* The second write of the port_connect under way, and its return.
PortConnectEnd ==
    /\ connecting # <<>>
    /\ clients' = ConnectWriteA(clients, connecting[1], connecting[2],
                                connecting[3])
    /\ connecting' = <<>>
    /\ UNCHANGED <<real_remote_client, last, twice, mirror_ignored, mirror_exc,
                   seen, notMirror>>

\* The event under way is recorded on b's port and not on a's.
PartlyApplied ==
    /\ connecting # <<>>
    /\ (connecting[1] \in Connections(clients, connecting[2])) = connecting[3]
    /\ (connecting[2] \in Connections(clients, connecting[1])) # connecting[3]

\* A reader thread calls get on a Leaf track; torn: it read one of the two
\* ports of an event that is recorded on one of them only.
ReaderGet ==
    /\ \E t \in LeafTracks :
          seen' = [track |-> t,
                   val |-> LeafGet(t, [clients |-> clients]).val,
                   torn |-> /\ PartlyApplied
                            /\ {t.a, t.b} = {connecting[1], connecting[2]}]
    /\ UNCHANGED <<clients, real_remote_client, last, twice, mirror_ignored,
                   mirror_exc, connecting, notMirror>>

\* The enumeration has run over the three ports, connected in any way.
RaceInit ==
    /\ DebounceIdle
    /\ SetupIdle
    /\ TracksIdle
    /\ TuiIdle
    /\ MirrorHistIdle
    /\ \E conns \in ServerGraphs(JackPortNames) :
          clients = Enumerate(OwnNames, JackPortNames, conns)
    /\ real_remote_client = OwnNames

RaceNext == PortConnectBegin \/ PortConnectEnd \/ ReaderGet

RaceSpec == RaceInit /\ [][RaceNext]_vars

\* C17: the mutations of the mirror are serialized against its readers: no
\* reader running concurrently with a callback reads a snapshot in which one
\* connect or disconnect event is recorded on one endpoint's connections and
\* not yet on the other's.
C17_ReadersSeeWholeEvents == ~seen.torn

(***************************************************************************)
(* The callbacks, one observed event at a time                             *)
(***************************************************************************)

\* On a cache miss _jack_port_name_to_ref asks the server (the except KeyError
\* branch); on a hit it does not.
LooksUp(cache, remote_client) == cache[remote_client] = NoName

\* History kept in last by the observed callbacks:
\* <<callback, arguments, register or connect, names looked up, first answers>>.
\* first answers: for each transient name the identity the server returned the
\* first time it was asked, NoName if it was never asked.  The enumeration has
\* asked for the names of the baseline's ports.
FirstAnswers ==
    IF last = NoEvent
    THEN [n \in ClientNames |-> real_remote_client[n]]
    ELSE last[5]

\* The first answers after name was looked up and the server said answer.
Asked(first, looked, answer) ==
    [n \in ClientNames |->
        IF first[n] = NoName /\ n \in looked THEN answer[n] ELSE first[n]]

Observed(callback, args, register, looked, answer) ==
    /\ last' = <<callback, args, register, looked,
                 Asked(FirstAnswers, looked, answer)>>
    /\ twice' = FALSE
    /\ UNCHANGED <<connecting, seen, notMirror>>

ClientRegistrationEvent ==
    \E client_name \in ClientNames, register \in BOOLEAN :
        /\ clients' = client_registration(clients, client_name, register)
        /\ mirror_ignored' = FALSE
        /\ mirror_exc' = FALSE
        /\ UNCHANGED real_remote_client
        /\ Observed("client_registration", <<client_name>>, register, {},
                    [n \in ClientNames |-> NoName])

PortRegistrationEvent ==
    \E port \in JackPortNames, register \in BOOLEAN :
    \E answer \in Answers(real_remote_client, port[1]) :
        LET port_ref == jack_port_name_to_ref(real_remote_client, port, answer)
        IN  /\ clients' = port_registration(clients, port_ref, register)
            /\ real_remote_client' = CacheAfter(real_remote_client, port[1], answer)
            /\ mirror_ignored' = FALSE
            /\ mirror_exc' = FALSE
            /\ Observed("port_registration", <<port_ref>>, register,
                        IF LooksUp(real_remote_client, port[1])
                        THEN {port[1]} ELSE {},
                        [n \in ClientNames |-> answer])

PortConnectEvent ==
    \E a \in JackPortNames, b \in JackPortNames, connect \in BOOLEAN :
    \E ans_a \in Answers(real_remote_client, a[1]) :
    \E ans_b \in Answers(CacheAfter(real_remote_client, a[1], ans_a), b[1]) :
        LET r == PortConnectResult(clients, real_remote_client, a, b, connect,
                                   ans_a, ans_b)
            cache1 == CacheAfter(real_remote_client, a[1], ans_a)
        IN  /\ clients' = r.clients
            /\ real_remote_client' = r.cache
            /\ mirror_ignored' = r.ignored
            /\ mirror_exc' = r.exc
            /\ Observed("port_connect", <<r.a_ref, r.b_ref>>, connect,
                        {n \in {a[1]} : LooksUp(real_remote_client, n)}
                            \cup {n \in {b[1]} : LooksUp(cache1, n)},
                        [n \in ClientNames |->
                            IF n = a[1] /\ LooksUp(real_remote_client, n)
                            THEN ans_a ELSE ans_b])

\* The registration callbacks, over every baseline.
EventNext == ClientRegistrationEvent \/ PortRegistrationEvent

EventSpec == MirrorInit /\ [][EventNext]_vars

\* Every callback that resolves names, with the registrations of clients.
IdentityNext ==
    ClientRegistrationEvent \/ PortRegistrationEvent \/ PortConnectEvent

IdentitySpec == MirrorInit /\ [][IdentityNext]_vars

\* The callback that made the step, and what it was called with.
Event(callback, register) ==
    /\ last' # NoEvent
    /\ last'[1] = callback
    /\ last'[3] = register

\* C23: after a client-unregistered event for name the snapshot has no
\* ClientRecord for name, hence no PortRecord filed under it, whatever it held
\* before; every other ClientRecord is as it was, so an event for an absent name
\* changes nothing; and the callback does not raise.
C23_ClientUnregistered ==
    [][Event("client_registration", FALSE) =>
        LET name == last'[2][1]
        IN  /\ name \notin DOMAIN clients'
            /\ \A ref \in KnownPorts(clients') : ref[1] # name
            /\ DOMAIN clients' = DOMAIN clients \ {name}
            /\ \A c \in DOMAIN clients' : clients'[c] = clients[c]
            /\ name \notin DOMAIN clients => clients' = clients
            /\ ~mirror_exc']_vars

\* A client that had a port with a connection was unregistered.
C23_Witness ==
    /\ last # NoEvent
    /\ last[1] = "client_registration"
    /\ ~last[3]
    /\ last[2][1] \notin DOMAIN clients
    /\ \E ref \in KnownPorts(clients) :
           \E other \in Connections(clients, ref) : other[1] = last[2][1]

\* The other PortRecords are as they were.
OtherPortsKept(ref) ==
    \A r \in (KnownPorts(clients) \cup KnownPorts(clients')) \ {ref} :
        /\ HasPort(clients, r)
        /\ HasPort(clients', r)
        /\ Connections(clients', r) = Connections(clients, r)

\* A port-registered event for ref: a PortRecord under ref's owning client, with
\* the connection set it had if it was present and an empty one if not; the
\* owner's ClientRecord is created if absent.
PortRegistered ==
    Event("port_registration", TRUE) =>
        LET ref == last'[2][1]
        IN  /\ HasPort(clients', ref)
            /\ Connections(clients', ref) =
                   IF HasPort(clients, ref) THEN Connections(clients, ref) ELSE {}
            /\ DOMAIN clients' = DOMAIN clients \cup {ref[1]}
            /\ OtherPortsKept(ref)
            /\ ~mirror_exc'

\* A port-unregistered event for ref removes ref's PortRecord and no other;
\* created: the ClientRecords the event may add.
PortUnregistered(created) ==
    Event("port_registration", FALSE) =>
        LET ref == last'[2][1]
        IN  /\ ~HasPort(clients', ref)
            /\ DOMAIN clients' = DOMAIN clients \cup (created \cap {ref[1]})
            /\ OtherPortsKept(ref)
            /\ ~mirror_exc'

\* C24 as stated: registering a port inserts an empty PortRecord under its
\* owner, creating the owner's ClientRecord if absent, and keeps the connection
\* set of a port already present; unregistering a port removes that port's
\* PortRecord and changes nothing else.
C24_PortEvents ==
    [][PortRegistered /\ PortUnregistered({})]_vars

\* C24 as the code has it: as above, but unregistering a port of a client that
\* has no ClientRecord creates an empty ClientRecord for that client.
C24_PortEventsOwnerCreated ==
    [][PortRegistered /\ PortUnregistered(ClientNames)]_vars

\* A port that had a connection was registered again and kept it.
C24_Witness ==
    /\ last # NoEvent
    /\ last[1] = "port_registration"
    /\ last[3]
    /\ Connections(clients, last[2][1]) # {}

\* C25: the server is asked for the identity of a transient name only if it was
\* never asked for that name before, and every PortReference a callback builds
\* carries the identity the server gave the first time it was asked for the
\* reference's transient name.
C25_IdentityResolvedOnce ==
    [][last' # NoEvent =>
        /\ \A n \in last'[4] : FirstAnswers[n] = NoName
        /\ last'[1] # "client_registration" =>
               \A i \in DOMAIN last'[2] :
                   last'[2][i][1] = last'[5][last'[2][i][2]]]_vars

\* A port_connect between two ports of one transient name asked the server once
\* and built both references with the answer, an identity other than the name.
C25_Witness ==
    /\ last # NoEvent
    /\ last[1] = "port_connect"
    /\ last[4] = {last[2][1][2]}
    /\ last[2][1][2] = last[2][2][2]
    /\ last[2][1][1] = last[2][2][1]
    /\ last[2][1][1] # last[2][1][2]
    /\ last[2][1] # last[2][2]

(***************************************************************************)
(* One get, or one Bundle.set, on a composite track                        *)
(***************************************************************************)

\* The member lists of the Bundles, and of Swap and Push.
BundleLists == VolumeBundles \cup LeafLists
PairLists == VolumePairs \cup BundlePairs \cup LeafPairs

\* t.get() is called and what it gives is remembered in op.prev: get calls
\* getvolume, getenum or reads the snapshot, and writes nothing.
GetCall(t, failing) ==
    Call("get", t, FALSE, failing, TrackGet(t, World, failing),
         SetReturns(World, <<>>))

GetBundle ==
    /\ NoCallYet
    /\ \E ts \in BundleLists, failing \in DeviceFailures :
           GetCall(MultiConnectionTrack(ts), failing)

SetBundle ==
    /\ NoCallYet
    /\ \E ts \in BundleLists, v \in BOOLEAN, failing \in DeviceFailures :
           SetCall(MultiConnectionTrack(ts), v, failing)

GetSwap ==
    /\ NoCallYet
    /\ \E ts \in PairLists, failing \in DeviceFailures : GetCall(Swap(ts), failing)

GetPush ==
    /\ NoCallYet
    /\ \E ts \in PairLists, failing \in DeviceFailures : GetCall(Push(ts), failing)

AccessNext == GetBundle \/ SetBundle \/ GetSwap \/ GetPush

AccessSpec == TrackInit /\ [][AccessNext]_vars

\* Member i's own get, and the calls its own set(v) makes, in the state the
\* call on the composite track was made in.
MemberGet(i) == TrackGet(op.track.tracks[i], op.pre, op.failing)

RECURSIVE MemberCalls(_)
MemberCalls(ts) ==
    IF ts = <<>>
    THEN <<>>
    ELSE TrackSet(Head(ts), op.v, op.pre, op.failing).log \o MemberCalls(Tail(ts))

\* C28: Bundle.get gives what the first member's get gives, whatever the states
\* of the other members and whether their devices fail, and writes nothing;
\* Bundle.set(v), when no member's set raises, has made the calls of every
\* member's set(v), once each and in list order, and every volume member's
\* control is at the level set(v) writes.
C28_BundleGetSet ==
    /\ Called("get", "multi") =>
           /\ op.prev = MemberGet(1)
           /\ World = op.pre
    /\ (Made("multi") /\ RaisingMembers = {}) =>
           /\ ~op.exc
           /\ op.log = MemberCalls(op.track.tracks)
           /\ \A i \in DOMAIN op.track.tracks :
                  LET t == op.track.tracks[i]
                  IN  t.kind = "volume" =>
                         /\ volume[t.control] = IF op.v THEN t.on ELSE 0
                         /\ op.log[i] = <<"setvolume", <<t.control>>>>

\* C28's case: the get of a Bundle of three gave true, as its first member's,
\* while the second member's device fails and the third member reads false.
C28_Witness ==
    /\ Called("get", "multi")
    /\ Len(op.track.tracks) = 3
    /\ op.prev = Returns(TRUE)
    /\ MemberGet(2).exc
    /\ MemberGet(3) = Returns(FALSE)

\* The paired positions of a Swap or Push.
Pairs == 1..(Len(op.track.tracks) \div 2)

\* C29: the get of a Swap or a Push, when no member's get raises, is true iff
\* the state of the first group's track differs from the state of the second
\* group's track in at least one paired position; it raises iff a member's get
\* does; and it changes no state.
C29_GroupsDiffer ==
    (Called("get", "swap") \/ Called("get", "push")) =>
        /\ op.prev.exc = (\E i \in DOMAIN op.track.tracks : MemberGet(i).exc)
        /\ ~op.prev.exc =>
               op.prev.val =
                   (\E i \in Pairs : MemberGet(2 * i - 1).val # MemberGet(2 * i).val)
        /\ World = op.pre

\* C29's case: a Swap over two pairs whose first pair agrees and whose second
\* pair differs reads true.
C29_Witness ==
    /\ Called("get", "swap")
    /\ Len(op.track.tracks) = 4
    /\ op.prev = Returns(TRUE)
    /\ MemberGet(1) = MemberGet(2)
    /\ MemberGet(3).val # MemberGet(4).val

(***************************************************************************)
(* The cache of Mixer objects (portman/alsa.py)                            *)
(*                                                                         *)
(* Tracks are constructed by conf(), which update_the_status calls on the  *)
(* main thread and on the debouncer thread; each constructor calls         *)
(* _get_mixer.  A thread can be switched out between the statements of     *)
(* _get_mixer: the lookup, the creation of the Mixer, the store.           *)
(***************************************************************************)

\* (card_index, control_name)
MixerKeys == {<<0, ControlNames[1]>>, <<0, "e1">>}

\* The threads that rebuild the bindings.
Threads == {"main", "settle"}

\* The tracks one thread constructs.
MaxTracks == 2

\* Outside _get_mixer, no track constructed yet; m is the Mixer a thread has
\* created and not yet stored, 0 when it has none.
Outside == [pc |-> "outside", key |-> <<>>, m |-> 0, tracks |-> <<>>]

\* lines 75-77: return _mixers[card_index, control_name], or KeyError; a track
\* constructed holds <<key, Mixer>> (self.mixer)
GetMixerLookup ==
    \E th \in Threads, key \in MixerKeys :
        LET b == mixers.in[th]
        IN  /\ b.pc = "outside"
            /\ Len(b.tracks) < MaxTracks
            /\ mixers' =
                 IF key \in DOMAIN mixers.cache
                 THEN [mixers EXCEPT
                         !.in[th].tracks = Append(@, <<key, mixers.cache[key]>>)]
                 ELSE [mixers EXCEPT !.in[th].pc = "missed", !.in[th].key = key]
            /\ UNCHANGED <<mirrorVars, debVars, trackVars, tuiVars, startup>>

\* lines 78-80: alsaaudio.Mixer(cardindex=..., control=...): the Mixer objects
\* of a key are numbered as they are created
GetMixerCreate ==
    \E th \in Threads :
        LET b == mixers.in[th]
        IN  /\ b.pc = "missed"
            /\ mixers' = [mixers EXCEPT !.made[b.key] = @ + 1,
                                        !.in[th].m = mixers.made[b.key] + 1,
                                        !.in[th].pc = "created"]
            /\ UNCHANGED <<mirrorVars, debVars, trackVars, tuiVars, startup>>

\* lines 78, 81: _mixers[card_index, control_name] = m; return m
GetMixerStore ==
    \E th \in Threads :
        LET b == mixers.in[th]
        IN  /\ b.pc = "created"
            /\ mixers' = [mixers EXCEPT !.cache = Store(@, b.key, b.m),
                                        !.in[th].tracks = Append(@, <<b.key, b.m>>),
                                        !.in[th].pc = "outside",
                                        !.in[th].key = <<>>,
                                        !.in[th].m = 0]
            /\ UNCHANGED <<mirrorVars, debVars, trackVars, tuiVars, startup>>

MixersInit ==
    /\ MirrorIdle
    /\ DebounceIdle
    /\ TracksIdle
    /\ TuiIdle
    /\ startup = NoStartup
    /\ mixers = [cache |-> EmptyDict,
                 made |-> [k \in MixerKeys |-> 0],
                 in |-> [th \in Threads |-> Outside]]

MixersNext == GetMixerLookup \/ GetMixerCreate \/ GetMixerStore

MixersSpec == MixersInit /\ [][MixersNext]_vars

\* C22: for each (card_index, control_name) at most one Mixer is ever created,
\* and every track constructed for the control holds it, also when the two
\* threads construct tracks for a control not yet in the cache at the same time.
C22_OneHandlePerControl ==
    /\ \A k \in MixerKeys : mixers.made[k] <= 1
    /\ \A th \in Threads :
          \A i \in DOMAIN mixers.in[th].tracks :
              LET track == mixers.in[th].tracks[i]
              IN  track[2] = mixers.cache[track[1]]

(***************************************************************************)
(* Start-up: the end of PortManJack.register (portman/jack.py)             *)
(*                                                                         *)
(* The callbacks are registered before jackconn.__enter__() activates the  *)
(* client; from then on JACK's notification thread delivers them, while    *)
(* the main thread creates self.clients and enumerates the ports.          *)
(***************************************************************************)

\* The changes of the graph the server makes during start-up.
MaxEvents == 2

\* jackconn.get_ports(): the ports of the server, as a list.
PortOrder == <<<<"c1", "p1">>, <<"c1", "p2">>, <<"c2", "p1">>>>
get_ports(ports) == SelectSeq(PortOrder, LAMBDA pn : pn \in ports)

\* jackconn.get_all_connections(port)
get_all_connections(conns, port) == {e[2] : e \in {x \in conns : x[1] = port}}

\* The reference of a port name, each client answering to its own name.
OwnRef(pn) == RefOf(OwnNames, pn)

\* self.clients exists once line 153 has run; before, a callback that reads it
\* raises AttributeError.
HasClients == startup.pc \notin {"enter", "assign"}

\* The callbacks are delivered from activation on.
Activated == startup.pc # "enter"

\* The enumeration is not over.
Starting == startup.pc # "done"

\* line 152: jackconn.__enter__()
Activate ==
    /\ startup.pc = "enter"
    /\ startup' = [startup EXCEPT !.pc = "assign"]
    /\ UNCHANGED <<mirrorVars, debVars, trackVars, tuiVars, mixers>>

\* line 153: self.clients = {}
AssignClients ==
    /\ startup.pc = "assign"
    /\ clients' = EmptyDict
    /\ startup' = [startup EXCEPT !.pc = "ports"]
    /\ UNCHANGED <<real_remote_client, last, twice, mirror_ignored, mirror_exc,
                   connecting, seen, debVars, trackVars, tuiVars, mixers>>

\* line 154: jackconn.get_ports() is evaluated, once
GetPorts ==
    /\ startup.pc = "ports"
    /\ startup' = [startup EXCEPT !.pc = "port",
                                  !.todo = get_ports(startup.ports),
                                  !.seen_ports = startup.ports]
    /\ UNCHANGED <<mirrorVars, debVars, trackVars, tuiVars, mixers>>

\* lines 154-163: the body of the for loop for one port: its record is made
\* with setdefault and its connections, as the server has them now, are stored
EnumeratePort ==
    /\ startup.pc = "port"
    /\ startup.todo # <<>>
    /\ LET port == Head(startup.todo)
           ref == OwnRef(port)
           found == get_all_connections(startup.conns, port)
           cl1 == SetDefault(clients, ref[1], EmptyDict)
           cl2 == Store(cl1, ref[1], SetDefault(cl1[ref[1]], ref, {}))
       IN  /\ clients' = Store(cl2, ref[1],
                            Store(cl2[ref[1]], ref,
                                  cl2[ref[1]][ref] \cup {OwnRef(q) : q \in found}))
           /\ real_remote_client' =
                  [n \in ClientNames |->
                      IF n \in {port[1]} \cup {q[1] : q \in found}
                      THEN RealClient(real_remote_client, n, n)
                      ELSE real_remote_client[n]]
           /\ startup' = [startup EXCEPT
                  !.todo = Tail(@),
                  !.seen_conns = @ \cup {<<port, q>> : q \in found}]
    /\ UNCHANGED <<last, twice, mirror_ignored, mirror_exc, connecting, seen,
                   debVars, trackVars, tuiVars, mixers>>

\* line 163: the for loop is over, register returns
Enumerated ==
    /\ startup.pc = "port"
    /\ startup.todo = <<>>
    /\ startup' = [startup EXCEPT !.pc = "done"]
    /\ UNCHANGED <<mirrorVars, debVars, trackVars, tuiVars, mixers>>

\* A callback delivered during start-up gives the snapshot cl (and the cache):
\* without self.clients it raises and changes nothing.
Delivered(cl, cache, ports, conns) ==
    /\ clients' = IF HasClients THEN cl ELSE clients
    /\ real_remote_client' = cache
    /\ startup' = [startup EXCEPT
           !.ports = ports,
           !.conns = conns,
           !.events = @ + 1,
           !.failed = @ \/ ~HasClients,
           !.moved = @ \/ (HasClients /\ cl # clients)]
    /\ UNCHANGED <<last, twice, mirror_ignored, mirror_exc, connecting, seen,
                   debVars, trackVars, tuiVars, mixers>>

\* Another client's port appears, or one without connections goes, and JACK
\* calls port_registration.
ServerPort ==
    /\ Activated
    /\ Starting
    /\ startup.events < MaxEvents
    /\ \E pn \in JackPortNames :
          LET register == pn \notin startup.ports
          IN  /\ register \/ get_all_connections(startup.conns, pn) = {}
              /\ Delivered(port_registration(clients, OwnRef(pn), register),
                           CacheAfter(real_remote_client, pn[1], pn[1]),
                           IF register THEN startup.ports \cup {pn}
                                       ELSE startup.ports \ {pn},
                           startup.conns)

\* Two ports of the server are connected or disconnected, and JACK calls
\* port_connect.
ServerConnect ==
    /\ Activated
    /\ Starting
    /\ startup.events < MaxEvents
    /\ \E a \in startup.ports, b \in startup.ports :
          LET connect == <<a, b>> \notin startup.conns
              r == PortConnectResult(clients, real_remote_client, a, b, connect,
                                     a[1], b[1])
          IN  /\ a # b
              /\ Delivered(r.clients, r.cache, startup.ports,
                           IF connect
                           THEN startup.conns \cup {<<a, b>>, <<b, a>>}
                           ELSE startup.conns \ {<<a, b>>, <<b, a>>})

StartInit ==
    /\ DebounceIdle
    /\ TracksIdle
    /\ TuiIdle
    /\ MirrorHistIdle
    /\ clients = EmptyDict
    /\ real_remote_client = [n \in ClientNames |-> NoName]
    /\ mixers = NoMixers
    /\ \E ports \in SUBSET JackPortNames :
       \E conns \in ServerGraphs(ports) :
          startup = [pc |-> "enter", ports |-> ports, conns |-> conns,
                     todo |-> <<>>, seen_ports |-> {}, seen_conns |-> {},
                     events |-> 0, failed |-> FALSE, moved |-> FALSE]

StartNext ==
    \/ Activate \/ AssignClients \/ GetPorts \/ EnumeratePort \/ Enumerated
    \/ ServerPort \/ ServerConnect

StartSpec == StartInit /\ [][StartNext]_vars

\* Every port the enumeration was given has its record, and every connection it
\* was given is recorded on both of its ports.
BaselineComplete ==
    /\ \A pn \in startup.seen_ports : HasPort(clients, OwnRef(pn))
    /\ \A e \in startup.seen_conns :
          /\ HasPort(clients, OwnRef(e[1]))
          /\ HasPort(clients, OwnRef(e[2]))
          /\ OwnRef(e[2]) \in Connections(clients, OwnRef(e[1]))
          /\ OwnRef(e[1]) \in Connections(clients, OwnRef(e[2]))

\* C21: the callbacks delivered between the activation of the client and the
\* end of the enumeration neither fail nor change the snapshot, and when
\* start-up returns the snapshot has every enumerated port and every enumerated
\* connection on both of its ports.
C21_ConsistentBaseline ==
    /\ ~startup.failed
    /\ ~startup.moved
    /\ startup.pc = "done" => BaselineComplete

(***************************************************************************)
(* Two callbacks in either order                                           *)
(***************************************************************************)

\* A callback of the mirror with its arguments resolved: the client name of
\* client_registration, the PortRefs of port_registration and port_connect,
\* and register or connect.
MirrorEvents(real) ==
    [callback : {"client_registration"}, args : {<<c>> : c \in ClientNames},
     register : BOOLEAN]
    \cup [callback : {"port_registration"},
          args : {<<RefOf(real, pn)>> : pn \in JackPortNames}, register : BOOLEAN]
    \cup [callback : {"port_connect"},
          args : {<<RefOf(real, a), RefOf(real, b)>> :
                     a \in JackPortNames, b \in JackPortNames},
          register : BOOLEAN]

\* The snapshot the callback leaves.
Apply(cl, e) ==
    CASE e.callback = "client_registration" ->
             client_registration(cl, e.args[1], e.register)
      [] e.callback = "port_registration" ->
             port_registration(cl, e.args[1], e.register)
      [] e.callback = "port_connect" ->
             port_connect(cl, e.args[1], e.args[2], e.register).clients

\* The transient names the callback resolves.
Resolved(e) ==
    IF e.callback = "client_registration"
    THEN {}
    ELSE {e.args[i][2] : i \in DOMAIN e.args}

\* The clients whose ClientRecord the callback reads or writes.
NamedClients(e) ==
    IF e.callback = "client_registration"
    THEN {e.args[1]}
    ELSE {e.args[i][1] : i \in DOMAIN e.args}

\* The server's identities agree with what the mirror has cached.
Agrees(real) ==
    \A n \in ClientNames :
        real_remote_client[n] # NoName => real[n] = real_remote_client[n]

\* The mirror applies e1 and then e2; last keeps the two events, the snapshot
\* that e2 and then e1 would have left, and the snapshot before the two.
ApplyPair ==
    /\ last = NoEvent
    /\ \E real \in [ClientNames -> ClientNames] :
        /\ Agrees(real)
        /\ \E e1 \in MirrorEvents(real), e2 \in MirrorEvents(real) :
            /\ clients' = Apply(Apply(clients, e1), e2)
            /\ real_remote_client' =
                  [n \in ClientNames |->
                      IF n \in Resolved(e1) \cup Resolved(e2)
                      THEN real[n] ELSE real_remote_client[n]]
            /\ last' = <<e1, e2, Apply(Apply(clients, e2), e1), clients>>
    /\ twice' = FALSE
    /\ mirror_ignored' = FALSE
    /\ mirror_exc' = FALSE
    /\ UNCHANGED <<connecting, seen, notMirror>>

\* The snapshots the pairs are applied to, each with the transient names
\* resolved on the way: a baseline, or a baseline and one callback after it.
Starts(real, ports, conns) ==
    LET base == Enumerate(real, ports, conns)
        names == {pn[1] : pn \in ports}
    IN  {<<base, names>>}
        \cup {<<Apply(base, e), names \cup Resolved(e)>> : e \in MirrorEvents(real)}

OrderInit ==
    /\ DebounceIdle
    /\ SetupIdle
    /\ TracksIdle
    /\ TuiIdle
    /\ MirrorHistIdle
    /\ \E real \in [ClientNames -> ClientNames] :
       \E ports \in SUBSET JackPortNames :
       \E conns \in ServerGraphs(ports) :
       \E start \in Starts(real, ports, conns) :
        /\ clients = start[1]
        /\ real_remote_client =
              [n \in ClientNames |-> IF n \in start[2] THEN real[n] ELSE NoName]

OrderNext == ApplyPair

OrderSpec == OrderInit /\ [][OrderNext]_vars

\* C31 as stated: for every snapshot and every two mirror events, applying one
\* and then the other leaves the snapshot that the other order leaves.
C31_Commute ==
    last # NoEvent => clients = last[3]

\* C31 for events that have no client in common: two mirror events that name
\* different clients (the client registered or unregistered, the owners of the
\* ports) leave the same snapshot in either order.
C31_CommuteApart ==
    (last # NoEvent /\ NamedClients(last[1]) \cap NamedClients(last[2]) = {})
        => clients = last[3]

\* A connect between two known ports of one client and the unregistration of
\* another client that had a port: each changed the snapshot, and the other
\* order leaves the same snapshot.
C31_Witness ==
    /\ last # NoEvent
    /\ last[1].callback = "port_connect"
    /\ last[1].register
    /\ last[2].callback = "client_registration"
    /\ ~last[2].register
    /\ NamedClients(last[1]) \cap NamedClients(last[2]) = {}
    /\ Apply(last[4], last[1]) # last[4]
    /\ Apply(last[4], last[2]) # last[4]
    /\ clients # Apply(last[4], last[1])
    /\ clients = last[3]

(***************************************************************************)
(* One get, or one set, on a track over the graph                          *)
(*                                                                         *)
(* The snapshot after the call is the snapshot of the world the call        *)
(* leaves; port_connect runs later, once for each call made on the JACK     *)
(* client.                                                                  *)
(***************************************************************************)

\* The port references of the server's ports, under every identity a transient
\* name can resolve to, and a port the server does not have.
GraphRefs ==
    {RefOf(real, pn) : real \in [ClientNames -> ClientNames], pn \in JackPortNames}
        \cup {UnknownRef}

GraphLeaves ==
    {ConnectionTrack(e[1], e[2]) : e \in {x \in GraphRefs \X GraphRefs : x[1] # x[2]}}

\* Composite tracks over Leaf tracks, and a MixerLeaf.
GraphComposites ==
    LET l1 == ConnectionTrack(<<"c1", "c1", "p1">>, <<"c1", "c1", "p2">>)
        l2 == ConnectionTrack(<<"c1", "c1", "p1">>, <<"c2", "c2", "p1">>)
    IN  {MultiConnectionTrack(<<l1, l2>>), Swap(<<l1, l2>>), Push(<<l1, l2>>),
         PyalsaaudioVolumeTrack(ControlNames[1], MaxLevel)}

\* The call is made in the world as it is and leaves the world r.w.
GraphCall(kind, t, v, prev, r) ==
    /\ clients' = r.w.clients
    /\ volume' = r.w.volume
    /\ enum_value' = r.w.enum
    /\ requests' = r.w.requests
    /\ op' = [kind |-> kind, track |-> t, v |-> v, failing |-> {},
              pre |-> World, prev |-> prev, exc |-> r.exc, log |-> r.log]
    /\ UNCHANGED <<real_remote_client, notTracks>>

GetTrack ==
    /\ NoCallYet
    /\ \E t \in GraphLeaves \cup GraphComposites :
           GraphCall("get", t, FALSE, TrackGet(t, World, {}), SetReturns(World, <<>>))

SetTrack ==
    /\ NoCallYet
    /\ \E t \in GraphLeaves \cup GraphComposites, v \in BOOLEAN :
           GraphCall("set", t, v, TrackGet(t, World, {}), TrackSet(t, v, World, {}))

\* Any graph of the server enumerated into the snapshot, under any identities.
GraphInit ==
    /\ DebounceIdle
    /\ SetupIdle
    /\ TuiIdle
    /\ MirrorHistIdle
    /\ \E real \in [ClientNames -> ClientNames] :
       \E ports \in SUBSET JackPortNames :
       \E conns \in ServerGraphs(ports) :
        /\ clients = Enumerate(real, ports, conns)
        /\ real_remote_client =
              [n \in ClientNames |->
                  IF \E pn \in ports : pn[1] = n THEN real[n] ELSE NoName]
    /\ volume = [c \in Controls |-> 0]
    /\ enum_value = [c \in EnumControls |-> Items[1]]
    /\ requests = <<>>
    /\ op = NoOp

GraphNext == GetTrack \/ SetTrack \/ JackDeliver

GraphSpec == GraphInit /\ [][GraphNext]_vars

\* C33: a track's get or set does not write the snapshot: when the call is over
\* the snapshot is what it was before the call, and it stays so until
\* port_connect runs for a call the track made on the JACK client.
C33_OnlyMirrorWrites ==
    (op.kind # "none" /\ NoneDelivered) => clients = op.pre.clients

\* A Leaf.set has made its call on the JACK client, the callback has not run
\* yet, and the snapshot is the one from before the call.
C33_Witness ==
    /\ op.kind = "set"
    /\ op.track.kind = "leaf"
    /\ ~op.exc
    /\ Len(op.log) = 1
    /\ NoneDelivered
    /\ clients = op.pre.clients

\* C39: a Leaf.set(v) that returns has made no call on the JACK client when
\* the snapshot reported the connection state v, and otherwise exactly one:
\* connect when v is true, disconnect when v is false, with both ports named
\* transient_client_name:port_name.
C39_LeafSetCalls ==
    (op.kind = "set" /\ op.track.kind = "leaf" /\ ~op.exc) =>
        LET t == op.track
            names == <<<<t.a[2], t.a[3]>>, <<t.b[2], t.b[3]>>>>
        IN  /\ ~op.prev.exc
            /\ op.prev.val = (t.b \in Connections(op.pre.clients, t.a))
            /\ op.log = IF op.prev.val = op.v
                        THEN <<>>
                        ELSE <<<<IF op.v THEN "connect" ELSE "disconnect", names>>>>

\* A connected Leaf between ports of a client whose identity is not its
\* transient name was set to false: one disconnect, the ports named by the
\* transient name.
C39_Witness ==
    /\ op.kind = "set"
    /\ op.track.kind = "leaf"
    /\ ~op.exc
    /\ op.track.a[1] # op.track.a[2]
    /\ ~op.v
    /\ op.log = <<<<"disconnect",
                    <<<<op.track.a[2], op.track.a[3]>>,
                      <<op.track.b[2], op.track.b[3]>>>>>>>>

(***************************************************************************)
(* The keystroke loop against the settle notifications                     *)
(*                                                                         *)
(* The main thread evaluates  c.upper() in keys  and  keys[c.upper()]  one  *)
(* after the other, and the debouncer thread assigns keys in               *)
(* update_the_status; a graph event is followed by a pulse, and a pulse by *)
(* one settle notification.  The graph events stop after MaxPulses.        *)
(***************************************************************************)

\* The characters the operator types here: a key the script binds, and one it
\* does not.
LoopKeys == {"X", "O"}

\* The debouncer, but for the flag of its Event and the count of the pulses.
debRest == <<graph_reordered, pc, deadline, cb_i, pulse_pc, exit_pc, now, last_pulse,
             bursts, exact_gap, settles, settled_at, settled_last, invoked, raised>>

\* pm.graph_order_callback(update_the_status) is in force.
LoopRegistered == Registered \/ main_pc = "lookup"

\* A client comes or goes, and JACK calls graph_order: the Event is set.
GraphChanges ==
    /\ pulses < MaxPulses
    /\ ClientRegistrationStep
    /\ flag' = TRUE
    /\ pulses' = pulses + 1
    /\ fresh' = (fresh /\ clients' = clients)
    /\ main_clean' = (main_clean /\ clients' = clients)
    /\ settle_clean' = (settle_clean /\ clients' = clients)
    /\ UNCHANGED <<keys, main_pc, trigger, main_keys2, main_same, settle_pc,
                   settle_keys2, settle_same, rebuilt, crash, caught, term,
                   dispatch, debRest, setupVars, trackVars>>

\* The settle window after the pulse has passed: the debouncer thread has
\* cleared the Event and calls the callbacks registered, update_the_status if
\* the main thread is inside the with block, which calls conf().
SettleNotify ==
    /\ flag
    /\ settle_pc = "idle"
    /\ flag' = FALSE
    /\ LET r == conf(clients)
       IN  IF ~LoopRegistered
           THEN UNCHANGED <<settle_pc, settle_keys2, settle_clean, settle_same, caught>>
           ELSE IF r.exc
           THEN /\ caught' = "conf"
                /\ UNCHANGED <<settle_pc, settle_keys2, settle_clean, settle_same>>
           ELSE /\ settle_pc' = "rest"
                /\ settle_keys2' = r.keys
                /\ settle_clean' = TRUE
                /\ settle_same' = (fresh /\ main_pc \notin {"conf", "rest"})
                /\ caught' = "none"
    /\ UNCHANGED <<keys, main_pc, trigger, main_keys2, main_clean, main_same,
                   fresh, rebuilt, crash, term, dispatch,
                   mirrorVars, pulses, debRest, setupVars, trackVars>>

\* line 83: if c.upper() in keys
KeyTest ==
    /\ main_pc = "read"
    /\ \E c \in LoopKeys :
          /\ dispatch' = Dispatched(c, <<>>, <<>>)
          /\ IF upper(c) \in DOMAIN keys
             THEN /\ main_pc' = "lookup"
                  /\ UNCHANGED trigger
             ELSE /\ main_pc' = "conf"
                  /\ trigger' = "key"
    /\ UNCHANGED <<keys, main_keys2, main_clean, main_same, settle_pc,
                   settle_keys2, settle_clean, settle_same, fresh, rebuilt,
                   crash, caught, term, mirrorVars, debVars, setupVars, trackVars>>

\* lines 84-85: track = keys[c.upper()], which raises KeyError when the key is
\* no longer bound, and track.set(not track.get()).
KeyLookup ==
    /\ main_pc = "lookup"
    /\ LET k == upper(dispatch.char)
       IN  IF k \notin DOMAIN keys
           THEN /\ Raised("lookup", TRUE)
                /\ UNCHANGED <<trigger, volume, requests, dispatch>>
           ELSE LET track == keys[k]
                    previous == TrackGet(track, World, {})
                    s == TrackSet(track, ~previous.val, World, {})
                IN  IF previous.exc
                    THEN /\ Raised("dispatch", TRUE)
                         /\ dispatch' = Dispatched(dispatch.char, <<k>>, <<>>)
                         /\ UNCHANGED <<trigger, volume, requests>>
                    ELSE /\ volume' = s.w.volume
                         /\ requests' = s.w.requests
                         /\ dispatch' = Dispatched(dispatch.char, <<k>>,
                                            <<<<k, ~previous.val>>>>)
                         /\ IF s.exc
                            THEN /\ Raised("dispatch", TRUE)
                                 /\ UNCHANGED trigger
                            ELSE /\ main_pc' = "conf"
                                 /\ trigger' = "key"
                                 /\ UNCHANGED <<crash, term>>
    /\ UNCHANGED <<keys, main_keys2, main_clean, main_same, settle_pc,
                   settle_keys2, settle_clean, settle_same, fresh, rebuilt,
                   caught, enum_value, op, mirrorVars, debVars, setupVars>>

LoopNext ==
    \/ MainConf \/ MainRest \/ KeyTest \/ KeyLookup
    \/ GraphChanges \/ SettleNotify \/ SettleRest

\* A thread that can take its next step takes it; the operator need not type,
\* and the graph need not change.
LoopSpec ==
    /\ TuiInit
    /\ [][LoopNext]_vars
    /\ WF_vars(MainConf)
    /\ WF_vars(MainRest)
    /\ WF_vars(KeyLookup)
    /\ WF_vars(SettleNotify)
    /\ WF_vars(SettleRest)

\* C38: the lookup of the track never fails on a key that the test found bound.
C38_DispatchAtomic == crash # "lookup"

\* C34: from some moment on, the live bindings are the bindings the binding
\* function gives for the snapshot (when it gives any, and the loop runs).
C34_BindingsFollowGraph ==
    <>[](\/ main_pc = "crashed"
         \/ conf(clients).exc
         \/ DictEq(keys, conf(clients).keys))

(***************************************************************************)
(* Equality of tracks (portman/base.py, portman/alsa.py)                   *)
(*                                                                         *)
(* An instance is a record of its class and its attributes: a Leaf holds   *)
(* the PortMan it was built for, a mixer track the Mixer object it got     *)
(* from _get_mixer next to its key.                                        *)
(***************************************************************************)

\* The PortMan objects a Leaf can hold, and the Mixer objects of one control.
PortMans == {"pm1", "pm2"}
MixerObjects == {"mixer1", "mixer2"}

LeafInstances ==
    [class : {"leaf"}, pm : PortMans,
     a : {<<"c1", "c1", "p1">>}, b : {<<"c1", "c1", "p2">>, <<"c2", "c2", "p1">>}]

\* The Pyalsaaudio tracks: a volume track and an enum track hold their key
\* and the Mixer object.
MixerInstances ==
    [class : {"volume"}, mixer : MixerObjects,
     key : {<<0, ControlNames[1], on>> : on \in {0, MaxLevel}}]
        \cup [class : {"enum"}, mixer : MixerObjects,
              key : {<<0, "e1", Items[1], Items[2]>>}]

\* The members the composites are built from, and the lists of them.
MemberInstances ==
    {t \in LeafInstances : t.b[1] = "c2"}
        \cup {t \in MixerInstances : t.class = "volume" /\ t.key[3] = MaxLevel}

MemberLists == UNION {[1..n -> MemberInstances] : n \in 0..2}

\* MultiConnectionTrack(*tracks), Swap(*tracks), Push(*tracks)
CompositeInstances ==
    [class : {"multi"}, tracks : MemberLists]
        \cup [class : {"swap", "push"}, key : {ts \in MemberLists : Len(ts) % 2 = 0}]

Instances ==
    LeafInstances \cup MixerInstances \cup CompositeInstances

RECURSIVE eq(_, _)

\* tuple.__eq__: the same length and equal elements, by the elements' __eq__.
TupleEq(x, y) ==
    /\ Len(x) = Len(y)
    /\ \A i \in DOMAIN x : eq(x[i], y[i])

\* A KeyedEqMixin that does not look at the class.
KeyedEqMixinAnyClass(t, o) ==
    /\ o.class \in {"swap", "push", "volume", "enum"}
    /\ IF t.class \in {"swap", "push"}
       THEN o.class \in {"swap", "push"} /\ TupleEq(t.key, o.key)
       ELSE o.class \in {"volume", "enum"} /\ t.key = o.key

\* SimpleEqMixin.__eq__: the same class and equal __dict__, which for a Leaf
\* is pm, a, b and for a Bundle is tracks.
SimpleEqMixin(t, o) ==
    /\ o.class = t.class
    /\ IF t.class = "leaf"
       THEN t.pm = o.pm /\ t.a = o.a /\ t.b = o.b
       ELSE TupleEq(t.tracks, o.tracks)

\* KeyedEqMixin.__eq__: the same class and equal key.
KeyedEqMixin(t, o) ==
    /\ o.class = t.class
    /\ IF t.class \in {"swap", "push"}
       THEN TupleEq(t.key, o.key)
       ELSE t.key = o.key

\* t == o
eq(t, o) ==
    IF t.class \in {"leaf", "multi"}
    THEN SimpleEqMixin(t, o)
    ELSE KeyedEqMixin(t, o)

\* Two tracks are compared; op remembers them and the result.
Compare ==
    /\ NoCallYet
    /\ \E t \in Instances, o \in Instances :
          op' = [kind |-> "eq", track |-> t, other |-> o, equal |-> eq(t, o)]
    /\ UNCHANGED <<volume, enum_value, requests, mirrorVars, debVars, setupVars,
                   tuiVars>>

EqualityNext == Compare

EqualitySpec == ConstructInit /\ [][EqualityNext]_vars

\* The variant and the constructor arguments of an instance, the members of a
\* composite by theirs; mirror: the PortMan counts as an argument of a Leaf.
RECURSIVE Arguments(_, _)
Arguments(t, mirror) ==
    CASE t.class = "leaf" ->
             <<"leaf", IF mirror THEN t.pm ELSE "any", t.a, t.b>>
      [] t.class \in {"volume", "enum"} -> <<t.class, t.key>>
      [] t.class = "multi" ->
             <<"multi", [i \in DOMAIN t.tracks |-> Arguments(t.tracks[i], mirror)]>>
      [] t.class \in {"swap", "push"} ->
             <<t.class, [i \in DOMAIN t.key |-> Arguments(t.key[i], mirror)]>>

\* C40 as stated: two tracks compare equal iff they are the same variant built
\* from equal constructor arguments, where the mirror a Leaf holds does not
\* count: two Leaf tracks are equal iff their a and their b are.
C40_EqualByArguments ==
    op.kind = "eq" =>
        (op.equal <=> Arguments(op.track, FALSE) = Arguments(op.other, FALSE))

\* C40 with the mirror counted: two Leaf tracks compare equal iff they hold the
\* same PortMan and their a and their b are equal; every other track compares
\* equal to another iff both are the same variant built from equal arguments.
C40_EqualByArgumentsAndMirror ==
    op.kind = "eq" =>
        (op.equal <=> Arguments(op.track, TRUE) = Arguments(op.other, TRUE))

\* Two Swaps that are different instances, their volume tracks holding
\* different Mixer objects, compare equal.
C40_Witness ==
    /\ op.kind = "eq"
    /\ op.equal
    /\ op.track.class = "swap"
    /\ op.track # op.other
    /\ Len(op.track.key) = 2

====
